---- MODULE Spec2Model ----
(***************************************************************************)
(* Model of pyergonomics' track store (src/pyergonomics/tracker.py): the   *)
(* Tracker dataframe, its identity operations (remove_persons,             *)
(* merge_persons), its queries (get_person_ids, get_events_for_person,     *)
(* get_persons_data, get_keypoints_at_frame, get_pose_metrics_for_person)  *)
(* and the batch assessment add_pose_assessment_columns, which runs        *)
(* make_pose_assessment (src/pyergonomics/pose_assessment.py) on each row. *)
(***************************************************************************)
EXTENDS Integers, Sequences, FiniteSets, TLC

\* ------------------------------------------------------------------ bounds
MaxRows == 3
MaxFrame == 2
MaxNormal == 4
MaxOffset == 2
MaxPoint == 1
MaxQuat == 4
MaxLiveFrames == 2
MaxBodies == 2
MaxTimers == 3

Frames == 0..MaxFrame
Persons == {1, 2, 3}

\* ----------------------------------------------------- keypoint payloads
\* A keypoints_3d cell is None or a joint array.  The joint arrays of the
\* model are three fixtures, named by the geometry make_pose_assessment
\* meets in them; each gives the joints the trunk computation reads
\* (coordinates in decimetres).
Poses == {"standing", "hip_eq_neck", "hips_coincident"}
Keypoints == Poses \cup {"None"}

Joints(pose) ==
    CASE pose = "standing" ->
            [l_hip |-> <<1, 0, 10>>, r_hip |-> <<-1, 0, 10>>, neck |-> <<0, 0, 15>>]
      [] pose = "hip_eq_neck" ->
            [l_hip |-> <<1, 0, 10>>, r_hip |-> <<-1, 0, 10>>, neck |-> <<0, 0, 10>>]
      [] pose = "hips_coincident" ->
            [l_hip |-> <<0, 0, 10>>, r_hip |-> <<0, 0, 10>>, neck |-> <<0, 0, 15>>]

\* ------------------------------------------------------------ dataframe
BaseColumns == {"person", "frame", "keypoints_3d"}
TrunkColumns == {"trunk_bending", "trunk_side_bending", "trunk_twist"}
ArmColumns == {"left_elbow_above_shoulder", "right_elbow_above_shoulder",
               "left_hand_above_head_level", "right_hand_above_head_level",
               "left_far_reach", "right_far_reach"}
MetricColumns == TrunkColumns \cup ArmColumns

\* A row: its key, its keypoints_3d cell, and its metric cells ("absent":
\* the dataframe has no metric columns; "null": a null struct was unnested;
\* otherwise the pose the values were computed from).
Row(f, p, k) == [frame |-> f, person |-> p, keypoints_3d |-> k, metrics |-> "absent"]
FileRows(frames, persons, keypoints) ==
    {Row(f, p, k) : f \in frames, p \in persons, k \in keypoints}

\* Tracker.df is None when the tracking file is not there.
DfNone == [isNone |-> TRUE, columns |-> {}, rows |-> <<>>]
DataFrame(cols, rows) == [isNone |-> FALSE, columns |-> cols, rows |-> rows]

\* A has_data that answers for the path instead of the dataframe.
has_data_of_path(d) == TRUE

\* The property has_data: `self.df is not None`.
has_data(d) == ~d.isNone

\* pl.read_parquet stores the file's rows as they are.
ReadParquet(fileRows) == DataFrame(BaseColumns, fileRows)

\* The tracking files of the model: up to MaxRows rows, in any order, of
\* the given frames and persons and with cells drawn from `keypoints`.
\* Nothing makes a file's (frame, person) keys distinct.
ParquetFiles(frames, persons, keypoints) ==
    UNION {[1..n -> FileRows(frames, persons, keypoints)] : n \in 0..MaxRows}

VARIABLES
    df,     \* Tracker.df
    last,   \* the name of the last call made on the tracker
    err,    \* how that call ended: "ok" or the exception it raised
    writer, \* the mutating call in progress: its position, arguments and
            \* the outcome it has computed and not yet assigned
    reader, \* the query in progress: its position, arguments, what it has
            \* read from Tracker.df so far, and its result
    registry, \* SKELETON_REGISTRY of pose_skeletons.py
    result, \* what the last call on the catalog or an importer was made
            \* with and what it gave back
    live,   \* the live ZED viewer: provider, tracker thread, GUI thread
    app     \* the editor: AppState, its config, tracker, timers, selection

vars == <<df, last, err, writer, reader, registry, result, live, app>>

\* What a call leaves behind: the dataframe and the exception raised, if any.
Outcome(d, e) == [df |-> d, err |-> e]

\* ------------------------------------------------------ column helpers
Indices(rows) == 1..Len(rows)
Count(rows, Test(_)) == Cardinality({i \in Indices(rows) : Test(rows[i])})
FramesOf(rows, pid) == {rows[i].frame : i \in {j \in Indices(rows) : rows[j].person = pid}}
PersonSet(rows) == {rows[i].person : i \in Indices(rows)}
RowCount(rows, pid) == Count(rows, LAMBDA r : r.person = pid)

\* -------------------------------------------------------- remove_persons
\* A remove_persons that drops only the rows of the first id listed.
remove_persons_first_id(d, person_ids) ==
    IF d.isNone \/ person_ids = {}
    THEN Outcome(d, "ok")
    ELSE LET first == CHOOSE x \in person_ids : \A y \in person_ids : x <= y
         IN  Outcome([d EXCEPT !.rows = SelectSeq(@, LAMBDA r : r.person # first)], "ok")

\* df.filter(~pl.col("person").is_in(person_ids))
remove_persons(d, person_ids) ==
    IF d.isNone
    THEN Outcome(d, "ok")
    ELSE Outcome([d EXCEPT !.rows = SelectSeq(@, LAMBDA r : r.person \notin person_ids)],
                 "ok")

\* --------------------------------------------------------- merge_persons
\* An overlap check that looks only at the target's frames against the
\* sources', and misses two sources meeting in a frame.
OverlapWithFirst(rows, involved_ids) ==
    LET first == CHOOSE x \in involved_ids : \A y \in involved_ids : x <= y
    IN  {f \in {rows[i].frame : i \in {j \in 1..Len(rows) : rows[j].person = first}} :
            \E i \in 1..Len(rows) : /\ rows[i].frame = f
                                    /\ rows[i].person \in involved_ids \ {first}}

\* subset.group_by("frame").len().filter(pl.col("len") > 1): the frames that
\* more than one row of the involved ids carries.
Overlap(rows, involved_ids) ==
    LET subset == SelectSeq(rows, LAMBDA r : r.person \in involved_ids)
    IN  {f \in {subset[i].frame : i \in Indices(subset)} :
            Count(subset, LAMBDA r : r.frame = f) > 1}

\* A relabeling without the otherwise branch: every row gets the target id.
RelabelWithoutOtherwise(rows, target_id, source_ids) ==
    [i \in Indices(rows) |-> [rows[i] EXCEPT !.person = target_id]]

\* pl.when(person.is_in(source_ids)).then(target_id).otherwise(person)
Relabel(rows, target_id, source_ids) ==
    [i \in Indices(rows) |->
        IF rows[i].person \in source_ids
        THEN [rows[i] EXCEPT !.person = target_id]
        ELSE rows[i]]

merge_persons(d, target_id, source_ids) ==
    IF d.isNone
    THEN Outcome(d, "ok")
    ELSE IF Overlap(d.rows, {target_id} \cup source_ids) # {}
    THEN Outcome(d, "MergeOverlapError")
    ELSE Outcome([d EXCEPT !.rows = Relabel(@, target_id, source_ids)], "ok")

\* ---------------------------------------------------- make_pose_assessment
Sub(a, b) == <<a[1] - b[1], a[2] - b[2], a[3] - b[3]>>
Add(a, b) == <<a[1] + b[1], a[2] + b[2], a[3] + b[3]>>
Twice(a) == <<2 * a[1], 2 * a[2], 2 * a[3]>>
Cross(a, b) == <<a[2] * b[3] - a[3] * b[2],
                 a[3] * b[1] - a[1] * b[3],
                 a[1] * b[2] - a[2] * b[1]>>
IsZero(a) == a = <<0, 0, 0>>

\* skspatial's Plane(point, normal) raises ValueError for a zero normal, and
\* for the non-finite normal that vf/np.linalg.norm(vf) is when vf is zero.
\* The vectors are kept at twice their length (vhc is a midpoint), which
\* changes no direction and no zero test.
PlaneRaises(joints) ==
    LET hip_line == Sub(joints.r_hip, joints.l_hip)
        vu  == Sub(Twice(joints.neck), Add(joints.r_hip, joints.l_hip))
        vf  == Cross(vu, hip_line)
        vl  == Cross(vu, vf)
        vgu == <<0, 0, 1>>
        vgf == Cross(vgu, hip_line)
        vgl == Cross(vgu, vgf)
    IN  \/ IsZero(vu)      \* transverse_plane
        \/ IsZero(vf)      \* coronal_plane
        \/ IsZero(vl)      \* sagittal_plane
        \/ IsZero(vgf)     \* ground_coronal_plane
        \/ IsZero(vgl)     \* ground_sagittal_plane

\* The outcome of make_pose_assessment on a joint array: "ValueError", or
\* the metrics computed from that array (named by the array).
make_pose_assessment(pose) ==
    IF PlaneRaises(Joints(pose)) THEN "ValueError" ELSE pose

\* The keys of the dict make_pose_assessment returns.
AssessmentKeys ==
    {"transverse_plane", "coronal_plane", "sagittal_plane", "ground_plane",
     "ground_coronal_plane", "ground_sagittal_plane",
     "trunk_bending", "trunk_side_bending", "trunk_twist"}

\* --------------------------------------------- add_pose_assessment_columns
\* The cell of a metric column in a row, after _compute_row_metrics took
\* results.get(col) for each field of the struct: None for a key the
\* assessment does not return.
MetricCell(row, col) ==
    IF row.metrics \in {"absent", "null"} THEN row.metrics
    ELSE IF col \in AssessmentKeys THEN row.metrics
    ELSE "null"

\* _compute_row_metrics: None for a None cell, else the assessment's values.
compute_row_metrics(keypoints) ==
    IF keypoints = "None" THEN "null" ELSE make_pose_assessment(keypoints)

\* with_columns(map_elements(...)): the python function runs on every row,
\* and an exception it raises ends the whole expression.
MapElements(rows) ==
    [i \in Indices(rows) |-> compute_row_metrics(rows[i].keypoints_3d)]

\* An unnest that overwrites the columns it finds.
UnnestOverwrites(columns) == FALSE

\* unnest("temp_metrics"): the struct's fields become columns; a field whose
\* name the frame already has is a duplicate column, which polars refuses.
UnnestRaises(columns) == columns \cap MetricColumns # {}

Unnest(rows, temp_metrics) ==
    [i \in Indices(rows) |-> [rows[i] EXCEPT !.metrics = temp_metrics[i]]]

add_pose_assessment_columns(d) ==
    IF d.isNone \/ "keypoints_3d" \notin d.columns
    THEN Outcome(d, "ok")
    ELSE LET temp_metrics == MapElements(d.rows)
         IN  IF \E i \in Indices(d.rows) : temp_metrics[i] = "ValueError"
             THEN Outcome(d, "ValueError")
             ELSE IF UnnestRaises(d.columns)
             THEN Outcome(d, "DuplicateError")
             ELSE Outcome(DataFrame(d.columns \cup MetricColumns,
                                    Unnest(d.rows, temp_metrics)), "ok")

\* --------------------------------------------------------------- queries
RECURSIVE Insert(_, _)
Insert(s, x) ==
    IF s = <<>> THEN <<x>>
    ELSE IF x <= Head(s) THEN <<x>> \o s
    ELSE <<Head(s)>> \o Insert(Tail(s), x)

\* Series.sort() and sorted(): ascending, repeated values kept.
RECURSIVE Sort(_)
Sort(s) == IF s = <<>> THEN <<>> ELSE Insert(Sort(Tail(s)), Head(s))

\* df.filter(pl.col("person") == person_id)["frame"]
FrameColumn(rows, person_id) ==
    LET q == SelectSeq(rows, LAMBDA r : r.person = person_id)
    IN  [i \in Indices(q) |-> q[i].frame]

\* df["person"].unique().sort().to_list()
RECURSIVE UniqueSorted(_)
UniqueSorted(S) ==
    IF S = {} THEN <<>>
    ELSE LET m == CHOOSE x \in S : \A y \in S : x <= y
         IN  <<m>> \o UniqueSorted(S \ {m})

get_person_ids(d) == IF d.isNone THEN <<>> ELSE UniqueSorted(PersonSet(d.rows))

\* The loop with the run test frames[i] >= end_frame: a gap no longer ends
\* a run.
RECURSIVE EventsLoopNoGap(_, _, _, _, _)
EventsLoopNoGap(frames, i, start_frame, end_frame, events) ==
    IF i > Len(frames)
    THEN Append(events, <<start_frame, end_frame>>)
    ELSE IF frames[i] >= end_frame + 1
    THEN EventsLoopNoGap(frames, i + 1, start_frame, frames[i], events)
    ELSE EventsLoopNoGap(frames, i + 1, frames[i], frames[i],
                         Append(events, <<start_frame, end_frame>>))

\* The loop of get_events_for_person over the sorted frames, from index i,
\* with the run [start_frame, end_frame] open.
RECURSIVE EventsLoop(_, _, _, _, _)
EventsLoop(frames, i, start_frame, end_frame, events) ==
    IF i > Len(frames)
    THEN Append(events, <<start_frame, end_frame>>)
    ELSE IF frames[i] = end_frame + 1
    THEN EventsLoop(frames, i + 1, start_frame, frames[i], events)
    ELSE EventsLoop(frames, i + 1, frames[i], frames[i],
                    Append(events, <<start_frame, end_frame>>))

\* Lines 132-146: the sorted frames of the person, then the loop.
EventsOfRows(rows, person_id) ==
    LET frames == Sort(FrameColumn(rows, person_id))
    IN  IF frames = <<>> THEN <<>>
        ELSE EventsLoop(frames, 2, frames[1], frames[1], <<>>)

get_events_for_person(d, person_id) ==
    IF d.isNone THEN <<>> ELSE EventsOfRows(d.rows, person_id)

\* The same loop as get_persons_data writes it, per group of group_by("person").
RECURSIVE BlocksLoop(_, _, _, _, _)
BlocksLoop(frames, i, start_frame, end_frame, events) ==
    IF i > Len(frames)
    THEN Append(events, <<start_frame, end_frame>>)
    ELSE IF frames[i] = end_frame + 1
    THEN BlocksLoop(frames, i + 1, start_frame, frames[i], events)
    ELSE BlocksLoop(frames, i + 1, frames[i], frames[i],
                    Append(events, <<start_frame, end_frame>>))

\* get_persons_data: one entry per person that has rows, in ascending id
\* order; the entry's id and events (its other fields are not modelled).
PersonsDataOfRows(rows) ==
    LET ids == UniqueSorted(PersonSet(rows))
    IN  [k \in 1..Len(ids) |->
            LET frames == Sort(FrameColumn(rows, ids[k]))
            IN  [id |-> ids[k],
                 events |-> IF frames = <<>> THEN <<>>
                            ELSE BlocksLoop(frames, 2, frames[1], frames[1], <<>>)]]

get_persons_data(d) == IF d.isNone THEN <<>> ELSE PersonsDataOfRows(d.rows)

EmptyMap == [x \in {} |-> "None"]

\* The loop without its test of the cell: a None cell gets an entry too.
KeypointsDictKeepsNone(frame_rows) ==
    LET last_of(p) == CHOOSE i \in Indices(frame_rows) :
                        /\ frame_rows[i].person = p
                        /\ \A j \in Indices(frame_rows) : frame_rows[j].person = p => j <= i
    IN  [p \in PersonSet(frame_rows) |-> frame_rows[last_of(p)].keypoints_3d]

\* The loop of get_keypoints_at_frame over the rows of one frame: a dict by
\* person of the cells that are not None (a later row replaces an earlier).
KeypointsDict(frame_rows) ==
    LET with_cell == {i \in Indices(frame_rows) : frame_rows[i].keypoints_3d # "None"}
        last_of(p) == CHOOSE i \in with_cell :
                        /\ frame_rows[i].person = p
                        /\ \A j \in with_cell : frame_rows[j].person = p => j <= i
    IN  [p \in {frame_rows[i].person : i \in with_cell} |->
            frame_rows[last_of(p)].keypoints_3d]

get_keypoints_at_frame(d, frame) ==
    IF d.isNone \/ "keypoints_3d" \notin d.columns
    THEN EmptyMap
    ELSE KeypointsDict(SelectSeq(d.rows, LAMBDA r : r.frame = frame))

\* target_columns of get_pose_metrics_for_person.
TargetColumns ==
    <<"frame", "trunk_bending", "trunk_side_bending", "trunk_twist",
      "left_elbow_above_shoulder", "right_elbow_above_shoulder",
      "left_hand_above_head_level", "right_hand_above_head_level",
      "left_far_reach", "right_far_reach">>

RECURSIVE InsertByFrame(_, _)
InsertByFrame(s, r) ==
    IF s = <<>> THEN <<r>>
    ELSE IF r.frame < Head(s).frame THEN <<r>> \o s
    ELSE <<Head(s)>> \o InsertByFrame(Tail(s), r)

\* q.sort("frame")
RECURSIVE SortByFrame(_)
SortByFrame(rows) ==
    IF rows = <<>> THEN <<>>
    ELSE InsertByFrame(SortByFrame(SubSeq(rows, 1, Len(rows) - 1)), rows[Len(rows)])

\* self.df.filter(person == person_id).sort("frame")
PersonQuery(d, person_id) ==
    SortByFrame(SelectSeq(d.rows, LAMBDA r : r.person = person_id))

\* q.get_column(col).to_numpy()
GetColumn(q, col) ==
    [i \in Indices(q) |-> IF col = "frame" THEN q[i].frame ELSE MetricCell(q[i], col)]

HasTrunkColumns(d) == TrunkColumns \subseteq d.columns

get_pose_metrics_for_person(d, person_id) ==
    IF d.isNone THEN EmptyMap
    ELSE IF ~HasTrunkColumns(d) THEN EmptyMap
    ELSE LET q == PersonQuery(d, person_id)
         IN  [col \in {TargetColumns[i] : i \in 1..Len(TargetColumns)} \cap d.columns
                |-> GetColumn(q, col)]

\* What get_keypoints_for_person returns: None, or a list of cells.
ReturnNone == [isNone |-> TRUE, items |-> <<>>]
ReturnList(items) == [isNone |-> FALSE, items |-> items]

\* get_keypoints_for_person(person_id, frame): `frame` is {} for the default
\* frame=None and {f} for a given frame.  The rows are taken as
\* filter leaves them, in stored order.
get_keypoints_for_person(d, person_id, frame) ==
    IF d.isNone THEN ReturnList(<<>>)
    ELSE LET qs == SelectSeq(d.rows, LAMBDA r : /\ r.person = person_id
                                                /\ (frame = {} \/ r.frame \in frame))
         IN  IF Len(qs) = 0 THEN ReturnNone
             ELSE ReturnList([i \in Indices(qs) |-> qs[i].keypoints_3d])

\* ------------------------------------------------------ pose_skeletons.py
\* class CocoKeypoints(Enum): its members in definition order, each <<name, value>>.
CocoKeypoints ==
  <<
    <<"NOSE", 0>>, <<"LEFT_EYE", 1>>, <<"RIGHT_EYE", 2>>,
    <<"LEFT_EAR", 3>>, <<"RIGHT_EAR", 4>>, <<"LEFT_SHOULDER", 5>>,
    <<"RIGHT_SHOULDER", 6>>, <<"LEFT_ELBOW", 7>>, <<"RIGHT_ELBOW", 8>>,
    <<"LEFT_WRIST", 9>>, <<"RIGHT_WRIST", 10>>, <<"LEFT_HIP", 11>>,
    <<"RIGHT_HIP", 12>>, <<"LEFT_KNEE", 13>>, <<"RIGHT_KNEE", 14>>,
    <<"LEFT_ANKLE", 15>>, <<"RIGHT_ANKLE", 16>>
  >>

\* class KinectAzureKeypoints(Enum): its members in definition order, each <<name, value>>.
KinectAzureKeypoints ==
  <<
    <<"PELVIS", 0>>, <<"SPINE_NAVAL", 1>>, <<"SPINE_CHEST", 2>>,
    <<"NECK", 3>>, <<"CLAVICLE_LEFT", 4>>, <<"SHOULDER_LEFT", 5>>,
    <<"ELBOW_LEFT", 6>>, <<"WRIST_LEFT", 7>>, <<"HAND_LEFT", 8>>,
    <<"HANDTIP_LEFT", 9>>, <<"THUMB_LEFT", 10>>, <<"CLAVICLE_RIGHT", 11>>,
    <<"SHOULDER_RIGHT", 12>>, <<"ELBOW_RIGHT", 13>>, <<"WRIST_RIGHT", 14>>,
    <<"HAND_RIGHT", 15>>, <<"HANDTIP_RIGHT", 16>>, <<"THUMB_RIGHT", 17>>,
    <<"HIP_LEFT", 18>>, <<"KNEE_LEFT", 19>>, <<"ANKLE_LEFT", 20>>,
    <<"FOOT_LEFT", 21>>, <<"HIP_RIGHT", 22>>, <<"KNEE_RIGHT", 23>>,
    <<"ANKLE_RIGHT", 24>>, <<"FOOT_RIGHT", 25>>, <<"HEAD", 26>>,
    <<"NOSE", 27>>, <<"EYE_LEFT", 28>>, <<"EAR_LEFT", 29>>,
    <<"EYE_RIGHT", 30>>, <<"EAR_RIGHT", 31>>
  >>

\* class OptitrackJoints(IntEnum): its members in definition order, each <<name, value>>.
OptitrackJoints ==
  <<
    <<"Hips", 0>>, <<"Spine", 1>>, <<"Spine1", 2>>, <<"Neck", 3>>,
    <<"Head", 4>>, <<"LeftShoulder", 5>>, <<"LeftArm", 6>>,
    <<"LeftForeArm", 7>>, <<"LeftHand", 8>>, <<"LeftHandThumb1", 9>>,
    <<"LeftHandThumb2", 10>>, <<"LeftHandThumb3", 11>>,
    <<"LeftHandIndex1", 12>>, <<"LeftHandIndex2", 13>>,
    <<"LeftHandIndex3", 14>>, <<"LeftHandMiddle1", 15>>,
    <<"LeftHandMiddle2", 16>>, <<"LeftHandMiddle3", 17>>,
    <<"LeftHandRing1", 18>>, <<"LeftHandRing2", 19>>,
    <<"LeftHandRing3", 20>>, <<"LeftHandPinky1", 21>>,
    <<"LeftHandPinky2", 22>>, <<"LeftHandPinky3", 23>>,
    <<"RightShoulder", 24>>, <<"RightArm", 25>>, <<"RightForeArm", 26>>,
    <<"RightHand", 27>>, <<"RightHandThumb1", 28>>,
    <<"RightHandThumb2", 29>>, <<"RightHandThumb3", 30>>,
    <<"RightHandIndex1", 31>>, <<"RightHandIndex2", 32>>,
    <<"RightHandIndex3", 33>>, <<"RightHandMiddle1", 34>>,
    <<"RightHandMiddle2", 35>>, <<"RightHandMiddle3", 36>>,
    <<"RightHandRing1", 37>>, <<"RightHandRing2", 38>>,
    <<"RightHandRing3", 39>>, <<"RightHandPinky1", 40>>,
    <<"RightHandPinky2", 41>>, <<"RightHandPinky3", 42>>,
    <<"LeftUpLeg", 43>>, <<"LeftLeg", 44>>, <<"LeftFoot", 45>>,
    <<"LeftToeBase", 46>>, <<"RightUpLeg", 47>>, <<"RightLeg", 48>>,
    <<"RightFoot", 49>>, <<"RightToeBase", 50>>
  >>

COCO_BONES ==
  {
    <<<<"CocoKeypoints", "NOSE">>, <<"CocoKeypoints", "LEFT_EYE">>>>,
    <<<<"CocoKeypoints", "NOSE">>, <<"CocoKeypoints", "RIGHT_EYE">>>>,
    <<<<"CocoKeypoints", "LEFT_EYE">>, <<"CocoKeypoints", "LEFT_EAR">>>>,
    <<<<"CocoKeypoints", "RIGHT_EYE">>, <<"CocoKeypoints", "RIGHT_EAR">>>>,
    <<<<"CocoKeypoints", "LEFT_SHOULDER">>, <<"CocoKeypoints", "RIGHT_SHOULDER">>>>,
    <<<<"CocoKeypoints", "LEFT_SHOULDER">>, <<"CocoKeypoints", "LEFT_ELBOW">>>>,
    <<<<"CocoKeypoints", "LEFT_ELBOW">>, <<"CocoKeypoints", "LEFT_WRIST">>>>,
    <<<<"CocoKeypoints", "RIGHT_SHOULDER">>, <<"CocoKeypoints", "RIGHT_ELBOW">>>>,
    <<<<"CocoKeypoints", "RIGHT_ELBOW">>, <<"CocoKeypoints", "RIGHT_WRIST">>>>,
    <<<<"CocoKeypoints", "LEFT_SHOULDER">>, <<"CocoKeypoints", "LEFT_HIP">>>>,
    <<<<"CocoKeypoints", "RIGHT_SHOULDER">>, <<"CocoKeypoints", "RIGHT_HIP">>>>,
    <<<<"CocoKeypoints", "LEFT_HIP">>, <<"CocoKeypoints", "RIGHT_HIP">>>>,
    <<<<"CocoKeypoints", "LEFT_HIP">>, <<"CocoKeypoints", "LEFT_KNEE">>>>,
    <<<<"CocoKeypoints", "LEFT_KNEE">>, <<"CocoKeypoints", "LEFT_ANKLE">>>>,
    <<<<"CocoKeypoints", "RIGHT_HIP">>, <<"CocoKeypoints", "RIGHT_KNEE">>>>,
    <<<<"CocoKeypoints", "RIGHT_KNEE">>, <<"CocoKeypoints", "RIGHT_ANKLE">>>>
  }

KINECT_AZURE_BONES ==
  {

    <<<<"KinectAzureKeypoints", "PELVIS">>, <<"KinectAzureKeypoints", "SPINE_NAVAL">>>>,
    <<<<"KinectAzureKeypoints", "SPINE_NAVAL">>, <<"KinectAzureKeypoints", "SPINE_CHEST">>>>,
    <<<<"KinectAzureKeypoints", "SPINE_CHEST">>, <<"KinectAzureKeypoints", "NECK">>>>,
    <<<<"KinectAzureKeypoints", "NECK">>, <<"KinectAzureKeypoints", "HEAD">>>>,
    <<<<"KinectAzureKeypoints", "HEAD">>, <<"KinectAzureKeypoints", "NOSE">>>>,
    <<<<"KinectAzureKeypoints", "HEAD">>, <<"KinectAzureKeypoints", "EYE_LEFT">>>>,
    <<<<"KinectAzureKeypoints", "HEAD">>, <<"KinectAzureKeypoints", "EYE_RIGHT">>>>,
    <<<<"KinectAzureKeypoints", "HEAD">>, <<"KinectAzureKeypoints", "EAR_LEFT">>>>,
    <<<<"KinectAzureKeypoints", "HEAD">>, <<"KinectAzureKeypoints", "EAR_RIGHT">>>>
  }

OPTITRACK_BONES ==
  {
    <<<<"OptitrackJoints", "Hips">>, <<"OptitrackJoints", "Spine">>>>,
    <<<<"OptitrackJoints", "Spine">>, <<"OptitrackJoints", "Spine1">>>>,
    <<<<"OptitrackJoints", "Spine1">>, <<"OptitrackJoints", "Neck">>>>,
    <<<<"OptitrackJoints", "Neck">>, <<"OptitrackJoints", "Head">>>>,
    <<<<"OptitrackJoints", "Spine1">>, <<"OptitrackJoints", "LeftShoulder">>>>,
    <<<<"OptitrackJoints", "LeftShoulder">>, <<"OptitrackJoints", "LeftArm">>>>,
    <<<<"OptitrackJoints", "LeftArm">>, <<"OptitrackJoints", "LeftForeArm">>>>,
    <<<<"OptitrackJoints", "LeftForeArm">>, <<"OptitrackJoints", "LeftHand">>>>,
    <<<<"OptitrackJoints", "LeftHand">>, <<"OptitrackJoints", "LeftHandThumb1">>>>,
    <<<<"OptitrackJoints", "LeftHandThumb1">>, <<"OptitrackJoints", "LeftHandThumb2">>>>,
    <<<<"OptitrackJoints", "LeftHandThumb2">>, <<"OptitrackJoints", "LeftHandThumb3">>>>,
    <<<<"OptitrackJoints", "LeftHand">>, <<"OptitrackJoints", "LeftHandIndex1">>>>,
    <<<<"OptitrackJoints", "LeftHandIndex1">>, <<"OptitrackJoints", "LeftHandIndex2">>>>,
    <<<<"OptitrackJoints", "LeftHandIndex2">>, <<"OptitrackJoints", "LeftHandIndex3">>>>,
    <<<<"OptitrackJoints", "LeftHand">>, <<"OptitrackJoints", "LeftHandMiddle1">>>>,
    <<<<"OptitrackJoints", "LeftHandMiddle1">>, <<"OptitrackJoints", "LeftHandMiddle2">>>>,
    <<<<"OptitrackJoints", "LeftHandMiddle2">>, <<"OptitrackJoints", "LeftHandMiddle3">>>>,
    <<<<"OptitrackJoints", "LeftHand">>, <<"OptitrackJoints", "LeftHandRing1">>>>,
    <<<<"OptitrackJoints", "LeftHandRing1">>, <<"OptitrackJoints", "LeftHandRing2">>>>,
    <<<<"OptitrackJoints", "LeftHandRing2">>, <<"OptitrackJoints", "LeftHandRing3">>>>,
    <<<<"OptitrackJoints", "LeftHand">>, <<"OptitrackJoints", "LeftHandPinky1">>>>,
    <<<<"OptitrackJoints", "LeftHandPinky1">>, <<"OptitrackJoints", "LeftHandPinky2">>>>,
    <<<<"OptitrackJoints", "LeftHandPinky2">>, <<"OptitrackJoints", "LeftHandPinky3">>>>,
    <<<<"OptitrackJoints", "Spine1">>, <<"OptitrackJoints", "RightShoulder">>>>,
    <<<<"OptitrackJoints", "RightShoulder">>, <<"OptitrackJoints", "RightArm">>>>,
    <<<<"OptitrackJoints", "RightArm">>, <<"OptitrackJoints", "RightForeArm">>>>,
    <<<<"OptitrackJoints", "RightForeArm">>, <<"OptitrackJoints", "RightHand">>>>,
    <<<<"OptitrackJoints", "RightHand">>, <<"OptitrackJoints", "RightHandThumb1">>>>,
    <<<<"OptitrackJoints", "RightHandThumb1">>, <<"OptitrackJoints", "RightHandThumb2">>>>,
    <<<<"OptitrackJoints", "RightHandThumb2">>, <<"OptitrackJoints", "RightHandThumb3">>>>,
    <<<<"OptitrackJoints", "RightHand">>, <<"OptitrackJoints", "RightHandIndex1">>>>,
    <<<<"OptitrackJoints", "RightHandIndex1">>, <<"OptitrackJoints", "RightHandIndex2">>>>,
    <<<<"OptitrackJoints", "RightHandIndex2">>, <<"OptitrackJoints", "RightHandIndex3">>>>,
    <<<<"OptitrackJoints", "RightHand">>, <<"OptitrackJoints", "RightHandMiddle1">>>>,
    <<<<"OptitrackJoints", "RightHandMiddle1">>, <<"OptitrackJoints", "RightHandMiddle2">>>>,
    <<<<"OptitrackJoints", "RightHandMiddle2">>, <<"OptitrackJoints", "RightHandMiddle3">>>>,
    <<<<"OptitrackJoints", "RightHand">>, <<"OptitrackJoints", "RightHandRing1">>>>,
    <<<<"OptitrackJoints", "RightHandRing1">>, <<"OptitrackJoints", "RightHandRing2">>>>,
    <<<<"OptitrackJoints", "RightHandRing2">>, <<"OptitrackJoints", "RightHandRing3">>>>,
    <<<<"OptitrackJoints", "RightHand">>, <<"OptitrackJoints", "RightHandPinky1">>>>,
    <<<<"OptitrackJoints", "RightHandPinky1">>, <<"OptitrackJoints", "RightHandPinky2">>>>,
    <<<<"OptitrackJoints", "RightHandPinky2">>, <<"OptitrackJoints", "RightHandPinky3">>>>,
    <<<<"OptitrackJoints", "Hips">>, <<"OptitrackJoints", "LeftUpLeg">>>>,
    <<<<"OptitrackJoints", "LeftUpLeg">>, <<"OptitrackJoints", "LeftLeg">>>>,
    <<<<"OptitrackJoints", "LeftLeg">>, <<"OptitrackJoints", "LeftFoot">>>>,
    <<<<"OptitrackJoints", "LeftFoot">>, <<"OptitrackJoints", "LeftToeBase">>>>,
    <<<<"OptitrackJoints", "Hips">>, <<"OptitrackJoints", "RightUpLeg">>>>,
    <<<<"OptitrackJoints", "RightUpLeg">>, <<"OptitrackJoints", "RightLeg">>>>,
    <<<<"OptitrackJoints", "RightLeg">>, <<"OptitrackJoints", "RightFoot">>>>,
    <<<<"OptitrackJoints", "RightFoot">>, <<"OptitrackJoints", "RightToeBase">>>>
  }

\* Enum members are named <<class, member>>.
Members(cls, keypoints) == {<<cls, keypoints[i][1]>> : i \in 1..Len(keypoints)}

\* A SkeletonDef that keeps kp.value + 1 in its lookup tables.
SkeletonDefOneBased(cls, keypoints, bones) ==
    LET ks == 1..Len(keypoints)
        keypoint_map == [m \in Members(cls, keypoints) |->
                            keypoints[CHOOSE i \in ks : keypoints[i][1] = m[2]][2] + 1]
        index_map == [v \in {keypoints[i][2] + 1 : i \in ks} |->
                            <<cls, keypoints[CHOOSE i \in ks : keypoints[i][2] + 1 = v][1]>>]
    IN  [keypoints |-> Members(cls, keypoints),
         bones |-> bones,
         keypoint_to_index |-> keypoint_map,
         index_to_keypoint |-> index_map,
         num_keypoints |-> Len(keypoints),
         bone_indices |-> {<<keypoint_map[b[1]], keypoint_map[b[2]]>> : b \in bones}]

\* SkeletonDef(keypoints=<enum class>, bones=...) with __post_init__ and the
\* two properties: keypoint_to_index is {kp: kp.value}, index_to_keypoint
\* is {kp.value: kp} (a later member replaces an earlier one of the same
\* value), num_keypoints is len(keypoints), bone_indices maps each bone
\* through keypoint_to_index.
SkeletonDef(cls, keypoints, bones) ==
    LET ks == 1..Len(keypoints)
        keypoint_map == [m \in Members(cls, keypoints) |->
                            keypoints[CHOOSE i \in ks : keypoints[i][1] = m[2]][2]]
        index_map == [v \in {keypoints[i][2] : i \in ks} |->
                            <<cls, keypoints[CHOOSE i \in ks :
                                        /\ keypoints[i][2] = v
                                        /\ \A j \in ks : keypoints[j][2] = v => j <= i][1]>>]
    IN  [keypoints |-> Members(cls, keypoints),
         bones |-> bones,
         keypoint_to_index |-> keypoint_map,
         index_to_keypoint |-> index_map,
         num_keypoints |-> Len(keypoints),
         bone_indices |-> {<<keypoint_map[b[1]], keypoint_map[b[2]]>> : b \in bones}]

COCO == SkeletonDef("CocoKeypoints", CocoKeypoints, COCO_BONES)
KINECT_AZURE == SkeletonDef("KinectAzureKeypoints", KinectAzureKeypoints, KINECT_AZURE_BONES)
OPTITRACK == SkeletonDef("OptitrackJoints", OptitrackJoints, OPTITRACK_BONES)

\* Names are sequences of characters.
Name_coco == <<"c", "o", "c", "o">>
Name_kinect_azure == <<"k", "i", "n", "e", "c", "t", "_", "a", "z", "u", "r", "e">>
Name_optitrack == <<"o", "p", "t", "i", "t", "r", "a", "c", "k">>

\* The module's SkeletonDef objects.  A dict holds references to objects:
\* the registry maps each name to the object it was built with.
SkeletonObjects == [COCO |-> COCO, KINECT_AZURE |-> KINECT_AZURE, OPTITRACK |-> OPTITRACK]
Deref(ref) == SkeletonObjects[ref]

SKELETON_REGISTRY ==
    (Name_coco :> "COCO") @@ (Name_kinect_azure :> "KINECT_AZURE")
        @@ (Name_optitrack :> "OPTITRACK")

LowerLetters == <<"a", "b", "c", "d", "e", "f", "g", "h", "i", "j", "k", "l", "m", "n", "o", "p", "q", "r", "s", "t", "u", "v", "w", "x", "y", "z">>
UpperLetters == <<"A", "B", "C", "D", "E", "F", "G", "H", "I", "J", "K", "L", "M", "N", "O", "P", "Q", "R", "S", "T", "U", "V", "W", "X", "Y", "Z">>
Whitespace == {" ", "\t", "\n"}

\* str.lower()
ToLower(ch) ==
    IF \E i \in 1..Len(UpperLetters) : UpperLetters[i] = ch
    THEN LowerLetters[CHOOSE i \in 1..Len(UpperLetters) : UpperLetters[i] = ch]
    ELSE ch
Lower(s) == [i \in 1..Len(s) |-> ToLower(s[i])]

\* str.strip()
RECURSIVE StripLeft(_)
StripLeft(s) ==
    IF s # <<>> /\ Head(s) \in Whitespace THEN StripLeft(Tail(s)) ELSE s
RECURSIVE StripRight(_)
StripRight(s) ==
    IF s # <<>> /\ s[Len(s)] \in Whitespace THEN StripRight(SubSeq(s, 1, Len(s) - 1)) ELSE s
Strip(s) == StripRight(StripLeft(s))

\* What a catalog call gives back: a value, or the exception with the name
\* its message quotes.
Returned(value) == [err |-> "ok", value |-> value]
Raised(e, name) == [err |-> e, name |-> name]

\* A lookup that registers the name it does not find.
get_skeleton_def_setdefault(reg, name) ==
    LET normalized_name == Strip(Lower(name))
    IN  IF normalized_name \notin DOMAIN reg
        THEN [registry |-> reg @@ (normalized_name :> "COCO"),
              out |-> Raised("ValueError", name)]
        ELSE [registry |-> reg, out |-> Returned(reg[normalized_name])]

\* get_skeleton_def(name): the registry after the call and what came back.
get_skeleton_def(reg, name) ==
    LET normalized_name == Strip(Lower(name))
    IN  IF normalized_name \notin DOMAIN reg
        THEN [registry |-> reg, out |-> Raised("ValueError", name)]
        ELSE [registry |-> reg, out |-> Returned(reg[normalized_name])]

\* The names the lookups of the model are made with: the registered names
\* and three names of other skeletons, in three casings, with and without
\* whitespace around them.
Words ==
    {<<"c", "o", "c", "o">>, <<"k", "i", "n", "e", "c", "t", "_", "a", "z", "u", "r", "e">>, <<"o", "p", "t", "i", "t", "r", "a", "c", "k">>,
     <<"x", "s", "e", "n", "s">>, <<"c", "o", "c", "o", "1", "7">>, <<"s", "t", "e", "r", "e", "o", "l", "a", "b", "s", "_", "b", "o", "d", "y", "3", "4">>}
ToUpper(ch) ==
    IF \E i \in 1..Len(LowerLetters) : LowerLetters[i] = ch
    THEN UpperLetters[CHOOSE i \in 1..Len(LowerLetters) : LowerLetters[i] = ch]
    ELSE ch
Casings(w) ==
    {w, [i \in 1..Len(w) |-> ToUpper(w[i])],
        [i \in 1..Len(w) |-> IF i = 1 THEN ToUpper(w[i]) ELSE w[i]]}
LookupNames ==
    {pre \o c \o post :
        pre \in {<<>>, <<" ">>},
        c \in UNION {Casings(w) : w \in Words},
        post \in {<<>>, <<" ">>, <<"\t", "\n">>}}
    \cup {<<>>, <<" ">>}

\* The attributes make_pose_assessment reads of its skeleton argument, in
\* the order it reads them (lines 12, 12, 13, 49, 49).
RolesRead == <<"r_hip", "l_hip", "neck", "l_shoulder", "r_shoulder">>

\* skeleton.<role> on a SkeletonDef: the attributes of the object are the
\* fields and properties of the dataclass.
RoleLookup(def, role) ==
    IF role \in DOMAIN def THEN Returned(def[role]) ELSE Raised("AttributeError", role)

\* make_pose_assessment(skeleton, joints) for a skeleton of the registry:
\* the first role that does not resolve ends the call.
make_pose_assessment_with(def, pose) ==
    LET failing == {i \in 1..Len(RolesRead) : RoleLookup(def, RolesRead[i]).err # "ok"}
    IN  IF failing # {}
        THEN RoleLookup(def, RolesRead[CHOOSE i \in failing : \A j \in failing : i <= j])
        ELSE LET r == make_pose_assessment(pose)
             IN  IF r = "ValueError" THEN Raised("ValueError", pose) ELSE Returned(r)

\* ------------------------------------------------------ importers/bvh.py
\* A joint name of an imported file: the name a skeleton expects, written
\* with or without a prefix and in its own or in upper case.
JointName(prefix, upper, name) == [prefix |-> prefix, upper |-> upper, name |-> name]

\* detect's normalization: the prefix and the case are dropped.
NormalizeJoint(j) == j.name
ExpectedNames(def) == {m[2] : m \in def.keypoints}

\* The share of a definition's expected names, in percent, that the
\* observed names must reach.
MinOverlapPercent == 50

NotDetected == [found |-> FALSE, name |-> <<>>]
Detected(name) == [found |-> TRUE, name |-> name]

\* detect_skeleton(joint_names): the registered definition with the largest
\* overlap of normalized names, the one with more keypoints on a tie, none
\* when no definition reaches the threshold.
detect_skeleton(reg, joint_names) ==
    LET observed == {NormalizeJoint(j) : j \in joint_names}
        overlap(k) == Cardinality(observed \cap ExpectedNames(Deref(reg[k])))
        candidates == {k \in DOMAIN reg :
                          /\ overlap(k) > 0
                          /\ overlap(k) * 100 >= MinOverlapPercent * Deref(reg[k]).num_keypoints}
        better(a, b) == \/ overlap(a) > overlap(b)
                        \/ overlap(a) = overlap(b)
                           /\ Deref(reg[a]).num_keypoints >= Deref(reg[b]).num_keypoints
    IN  IF candidates = {} THEN NotDetected
        ELSE Detected(CHOOSE k \in candidates : \A o \in candidates : better(k, o))

\* The attributes of class Tracker (tracker.py 10-325).
TrackerAttributes ==
    {"__init__", "has_data", "save", "remove_persons", "merge_persons",
     "get_keypoints_at_frame", "get_quaternions_at_frame", "get_person_ids",
     "get_keypoints_for_person", "get_quaternions_for_person",
     "get_events_for_person", "get_bounding_boxes_for_person",
     "get_keypoints_3d_dict", "get_persons_data", "get_bounding_boxes",
     "get_keypoints", "get_pose_metrics_for_person"}

NoProject == [exists |-> FALSE, pose_skeleton_name |-> <<>>]
Project(name) == [exists |-> TRUE, pose_skeleton_name |-> name]

\* A from_bvh that goes on with the name detection left it.
from_bvh_unchecked(reg, joint_names) ==
    LET skeleton_name == detect_skeleton(reg, joint_names)
    IN  IF "from_dataframe" \notin TrackerAttributes
        THEN [err |-> "AttributeError", project |-> NoProject]
        ELSE [err |-> "ok", project |-> Project(skeleton_name.name)]

\* from_bvh from the detection on (lines 127-141): no skeleton, no
\* project; otherwise the settings are filled and the tracker is made with
\* Tracker.from_dataframe.
from_bvh(reg, joint_names) ==
    LET skeleton_name == detect_skeleton(reg, joint_names)
    IN  IF ~skeleton_name.found
        THEN [err |-> "ValueError", project |-> NoProject]
        ELSE IF "from_dataframe" \notin TrackerAttributes
        THEN [err |-> "AttributeError", project |-> NoProject]
        ELSE [err |-> "ok", project |-> Project(skeleton_name.name)]

\* The joint-name lists of the model: each registered skeleton's own names,
\* as they are, in upper case and with a prefix; names of no skeleton; no
\* names; and a single name that two skeletons share.
OwnNames(def, prefix, upper) == {JointName(prefix, upper, n) : n \in ExpectedNames(def)}
UnrelatedNames == {JointName("", FALSE, "Bip01"), JointName("", FALSE, "Bip01_Pelvis")}
BvhJointNames ==
    {OwnNames(Deref(SKELETON_REGISTRY[k]), p, u) :
        k \in DOMAIN SKELETON_REGISTRY, p \in {"", "mixamorig:"}, u \in BOOLEAN}
    \cup {UnrelatedNames, {}, {JointName("", FALSE, "NOSE")}}

\* ------------------------------------------- the names the importers write
BodyFormats == {"body_18", "body_34"}

\* from_zed, lines 165-170: the skeleton name it writes into the project.
zed_skeleton_name(body_format) ==
    IF body_format = "body_18"
    THEN <<"c", "o", "c", "o", "1", "7">>
    ELSE <<"s", "t", "e", "r", "e", "o", "l", "a", "b", "s", "_", "b", "o", "d", "y", "3", "4">>

\* The names from_zed and from_bvh assign to settings.pose_skeleton_name.
ImporterNames(reg) ==
    {zed_skeleton_name(body_format) : body_format \in BodyFormats}
        \cup {detect_skeleton(reg, joint_names).name :
                joint_names \in {j \in BvhJointNames : detect_skeleton(reg, j).found}}

\* ProjectSettings.pose_skeleton of a project whose cache is empty: None
\* without a name, the catalog's answer with one.
pose_skeleton(reg, name) ==
    IF name = <<>>
    THEN Returned("None")
    ELSE get_skeleton_def(reg, name).out

\* ------------------------------------------------------ importers/zed.py
\* Floats are modelled as exact fractions [n, d] in lowest terms with
\* d > 0; nan, the value numpy gives for 0.0/0.0, is the fraction 0/0.
\* The planes of the model are those whose norms are fractions, so that
\* every square root the code takes is exact.
RECURSIVE GCD(_, _)
GCD(a, b) == IF b = 0 THEN a ELSE GCD(b, a % b)
Abs(k) == IF k < 0 THEN -k ELSE k

NaN == [n |-> 0, d |-> 0]
IsNaN(x) == x.d = 0
Q(n, d) ==
    IF d = 0 THEN NaN
    ELSE LET g == GCD(Abs(n), Abs(d))
         IN  IF d < 0 THEN [n |-> (-n) \div g, d |-> (-d) \div g]
             ELSE [n |-> n \div g, d |-> d \div g]
QInt(k) == Q(k, 1)

QAdd(x, y) == IF IsNaN(x) \/ IsNaN(y) THEN NaN ELSE Q(x.n * y.d + y.n * x.d, x.d * y.d)
QSub(x, y) == IF IsNaN(x) \/ IsNaN(y) THEN NaN ELSE Q(x.n * y.d - y.n * x.d, x.d * y.d)
QMul(x, y) == IF IsNaN(x) \/ IsNaN(y) THEN NaN ELSE Q(x.n * y.n, x.d * y.d)
\* x / y.  The code divides by a zero norm only a vector whose components
\* are all zero (or nan), which gives nan.
QDiv(x, y) == IF IsNaN(x) \/ IsNaN(y) THEN NaN ELSE Q(x.n * y.d, x.d * y.n)
\* x < y: False when either side is nan.
QLess(x, y) == ~IsNaN(x) /\ ~IsNaN(y) /\ x.n * y.d < y.n * x.d

IsSquare(k) == \E r \in 0..k : r * r = k
ISqrt(k) == CHOOSE r \in 0..k : r * r = k
\* np.sqrt of a fraction in lowest terms whose root is a fraction.
QSqrt(x) == IF IsNaN(x) THEN NaN ELSE [n |-> ISqrt(x.n), d |-> ISqrt(x.d)]

VDot(u, v) == QAdd(QAdd(QMul(u[1], v[1]), QMul(u[2], v[2])), QMul(u[3], v[3]))
VSub(u, v) == <<QSub(u[1], v[1]), QSub(u[2], v[2]), QSub(u[3], v[3])>>
VAdd(u, v) == <<QAdd(u[1], v[1]), QAdd(u[2], v[2]), QAdd(u[3], v[3])>>
VScale(k, v) == <<QMul(k, v[1]), QMul(k, v[2]), QMul(k, v[3])>>
VOver(v, k) == <<QDiv(v[1], k), QDiv(v[2], k), QDiv(v[3], k)>>
\* np.cross
VCross(u, v) == <<QSub(QMul(u[2], v[3]), QMul(u[3], v[2])),
                  QSub(QMul(u[3], v[1]), QMul(u[1], v[3])),
                  QSub(QMul(u[1], v[2]), QMul(u[2], v[1]))>>
\* np.linalg.norm
VNorm(v) == QSqrt(VDot(v, v))
Vec(a, b, c) == <<QInt(a), QInt(b), QInt(c)>>

\* The test `y_norm < 1e-6`.
YNormThreshold == Q(1, 1000000)

\* A floor transform whose translation is (0, 0, -d).
create_floor_transform_negated(floor_plane_eq) ==
    LET d == floor_plane_eq[4]
        n0 == <<floor_plane_eq[1], floor_plane_eq[2], floor_plane_eq[3]>>
        z_world == VOver(n0, VNorm(n0))
        cam_forward == Vec(0, 1, 0)
        y0 == VSub(cam_forward, VScale(VDot(cam_forward, z_world), z_world))
        y_norm == VNorm(y0)
        cam_right == Vec(1, 0, 0)
        xf0 == VSub(cam_right, VScale(VDot(cam_right, z_world), z_world))
        xf == VOver(xf0, VNorm(xf0))
        y_world == IF QLess(y_norm, YNormThreshold) THEN VCross(z_world, xf)
                   ELSE VOver(y0, y_norm)
        x_world == IF QLess(y_norm, YNormThreshold) THEN xf
                   ELSE VCross(y_world, z_world)
    IN  [R |-> <<x_world, y_world, z_world>>, t |-> <<QInt(0), QInt(0), QSub(QInt(0), d)>>]

\* _create_floor_transform(floor_plane_eq), lines 43-69; no line of it
\* raises: a zero norm makes the division give nan.  The fallback branch
\* is evaluated only when the test selects it.
create_floor_transform(floor_plane_eq) ==
    LET d == floor_plane_eq[4]
        n0 == <<floor_plane_eq[1], floor_plane_eq[2], floor_plane_eq[3]>>
        z_world == VOver(n0, VNorm(n0))
        cam_forward == Vec(0, 1, 0)
        y0 == VSub(cam_forward, VScale(VDot(cam_forward, z_world), z_world))
        y_norm == VNorm(y0)
        cam_right == Vec(1, 0, 0)
        xf0 == VSub(cam_right, VScale(VDot(cam_right, z_world), z_world))
        xf == VOver(xf0, VNorm(xf0))
        y_world == IF QLess(y_norm, YNormThreshold) THEN VCross(z_world, xf)
                   ELSE VOver(y0, y_norm)
        x_world == IF QLess(y_norm, YNormThreshold) THEN xf
                   ELSE VCross(y_world, z_world)
    IN  [R |-> <<x_world, y_world, z_world>>, t |-> <<QInt(0), QInt(0), d>>]

\* _transform_keypoints for one keypoint: R @ p + t
transform_keypoint(p, R, t) ==
    VAdd(<<VDot(R[1], p), VDot(R[2], p), VDot(R[3], p)>>, t)

\* The floor part of from_zed (lines 183-195, 238-242): when a floor plane
\* is found the transform is made from it and every keypoint goes through
\* it; otherwise the keypoints stay in camera coordinates.
from_zed_floor(found, floor_plane_eq, keypoints) ==
    IF found
    THEN LET rt == create_floor_transform(floor_plane_eq)
         IN  [err |-> "ok", floor_transform |-> rt,
              keypoints_3d |-> [i \in 1..Len(keypoints) |->
                                   transform_keypoint(keypoints[i], rt.R, rt.t)]]
    ELSE [err |-> "ok", floor_transform |-> "None", keypoints_3d |-> keypoints]

\* The planes of the model: integer normals up to MaxNormal in each
\* component whose norm and whose norm without the y component are whole,
\* the zero normal among them, and integer offsets up to MaxOffset.
Normals ==
    {v \in (-MaxNormal..MaxNormal) \X (-MaxNormal..MaxNormal) \X (-MaxNormal..MaxNormal) :
        /\ IsSquare(v[1] * v[1] + v[2] * v[2] + v[3] * v[3])
        /\ IsSquare(v[1] * v[1] + v[3] * v[3])}
Planes ==
    {<<QInt(v[1]), QInt(v[2]), QInt(v[3]), QInt(d)>> : v \in Normals, d \in -MaxOffset..MaxOffset}

\* Camera-space keypoints of the model: integer points up to MaxPoint.
Points ==
    {Vec(x, y, z) : x \in -MaxPoint..MaxPoint, y \in -MaxPoint..MaxPoint,
                    z \in -MaxPoint..MaxPoint}
OnPlane(p, plane) ==
    QAdd(VDot(p, <<plane[1], plane[2], plane[3]>>), plane[4]) = QInt(0)

\* ------------------------------------------- dev/ui/zed/zed_body_tracker.py
\* R[i, j] of the code is R[i + 1][j + 1] here.  Floats are the exact
\* fractions of the floor transform.
QHalf == Q(1, 2)
QQuarter == Q(1, 4)
QTwo == QInt(2)

\* A conversion that takes the first branch whatever the trace is.
rotation_matrix_to_quaternion_trace_only(R) ==
    LET trace == QAdd(QAdd(R[1][1], R[2][2]), R[3][3])
        s == QDiv(QHalf, QSqrt(QAdd(trace, QInt(1))))
    IN  <<QDiv(QQuarter, s),
          QMul(QSub(R[3][2], R[2][3]), s),
          QMul(QSub(R[1][3], R[3][1]), s),
          QMul(QSub(R[2][1], R[1][2]), s)>>

\* rotation_matrix_to_quaternion(R), lines 61-91: [w, x, y, z].
rotation_matrix_to_quaternion(R) ==
    LET trace == QAdd(QAdd(R[1][1], R[2][2]), R[3][3])
    IN  IF QLess(QInt(0), trace)
        THEN LET s == QDiv(QHalf, QSqrt(QAdd(trace, QInt(1))))
             IN  <<QDiv(QQuarter, s),
                   QMul(QSub(R[3][2], R[2][3]), s),
                   QMul(QSub(R[1][3], R[3][1]), s),
                   QMul(QSub(R[2][1], R[1][2]), s)>>
        ELSE IF QLess(R[2][2], R[1][1]) /\ QLess(R[3][3], R[1][1])
        THEN LET s == QMul(QTwo, QSqrt(QSub(QSub(QAdd(QInt(1), R[1][1]), R[2][2]), R[3][3])))
             IN  <<QDiv(QSub(R[3][2], R[2][3]), s),
                   QMul(QQuarter, s),
                   QDiv(QAdd(R[1][2], R[2][1]), s),
                   QDiv(QAdd(R[1][3], R[3][1]), s)>>
        ELSE IF QLess(R[3][3], R[2][2])
        THEN LET s == QMul(QTwo, QSqrt(QSub(QSub(QAdd(QInt(1), R[2][2]), R[1][1]), R[3][3])))
             IN  <<QDiv(QSub(R[1][3], R[3][1]), s),
                   QDiv(QAdd(R[1][2], R[2][1]), s),
                   QMul(QQuarter, s),
                   QDiv(QAdd(R[2][3], R[3][2]), s)>>
        ELSE LET s == QMul(QTwo, QSqrt(QSub(QSub(QAdd(QInt(1), R[3][3]), R[1][1]), R[2][2])))
             IN  <<QDiv(QSub(R[2][1], R[1][2]), s),
                   QDiv(QAdd(R[1][3], R[3][1]), s),
                   QDiv(QAdd(R[2][3], R[3][2]), s),
                   QMul(QQuarter, s)>>

\* The branch the code takes for R.
QuaternionBranch(R) ==
    LET trace == QAdd(QAdd(R[1][1], R[2][2]), R[3][3])
    IN  IF QLess(QInt(0), trace) THEN "trace"
        ELSE IF QLess(R[2][2], R[1][1]) /\ QLess(R[3][3], R[1][1]) THEN "x"
        ELSE IF QLess(R[3][3], R[2][2]) THEN "y"
        ELSE "z"

\* The rotation matrix of the rotation a quaternion (w, x, y, z) of any
\* non-zero length stands for.
RotationOf(q) ==
    LET w == q[1]
        x == q[2]
        y == q[3]
        z == q[4]
        N == QAdd(QAdd(QMul(w, w), QMul(x, x)), QAdd(QMul(y, y), QMul(z, z)))
        E(a, b, c, d) == QDiv(QSub(QAdd(QMul(a, a), QMul(b, b)), QAdd(QMul(c, c), QMul(d, d))), N)
        P(a, b, c, d) == QDiv(QMul(QTwo, QAdd(QMul(a, b), QMul(c, d))), N)
        M(a, b, c, d) == QDiv(QMul(QTwo, QSub(QMul(a, b), QMul(c, d))), N)
    IN  <<<<E(w, x, y, z), M(x, y, w, z), P(x, z, w, y)>>,
          <<P(x, y, w, z), E(w, y, x, z), M(y, z, w, x)>>,
          <<M(x, z, w, y), P(y, z, w, x), E(w, z, x, y)>>>>

\* The rotation matrices of the model: those of the quaternions with whole
\* components up to MaxQuat whose length is whole, so that every square
\* root the code takes is exact.  The identity, the half turns about the
\* axes and about other directions, and all four branches are among them.
Quaternions ==
    {q \in (-MaxQuat..MaxQuat) \X (-MaxQuat..MaxQuat) \X (-MaxQuat..MaxQuat) \X (-MaxQuat..MaxQuat) :
        /\ q # <<0, 0, 0, 0>>
        /\ IsSquare(q[1] * q[1] + q[2] * q[2] + q[3] * q[3] + q[4] * q[4])}
Rotations == {RotationOf(<<QInt(q[1]), QInt(q[2]), QInt(q[3]), QInt(q[4])>>) : q \in Quaternions}

\* ------------------------------------------------- the trunk angles
Dot(a, b) == a[1] * b[1] + a[2] * b[2] + a[3] * b[3]

\* Plane.project_vector(v) for a plane of normal n, kept at |n|^2 times its
\* length: v - (v.n / n.n) n.
ProjectVector(n, v) ==
    <<Dot(n, n) * v[1] - Dot(v, n) * n[1],
      Dot(n, n) * v[2] - Dot(v, n) * n[2],
      Dot(n, n) * v[3] - Dot(v, n) * n[3]>>

\* The angle between u and v, in degrees, is below ten in absolute value:
\* decided on the cosine, cos^2 > 0.97 (cos^2 of ten degrees is 0.9698...).
AngleBelowTen(u, v) ==
    /\ Dot(u, v) > 0
    /\ 100 * Dot(u, v) * Dot(u, v) > 97 * Dot(u, u) * Dot(v, v)

\* a["trunk_bending"] and a["trunk_side_bending"] (lines 40-45) of a joint
\* array for which no plane raises: whether they lie within ten degrees.
TrunkBendingBelowTen(joints) ==
    LET hip_line == Sub(joints.r_hip, joints.l_hip)
        vu  == Sub(Twice(joints.neck), Add(joints.r_hip, joints.l_hip))
        vgu == <<0, 0, 1>>
        vgf == Cross(vgu, hip_line)
        vgl == Cross(vgu, vgf)
    IN  AngleBelowTen(ProjectVector(vgl, vu), vgu)

TrunkSideBendingBelowTen(joints) ==
    LET hip_line == Sub(joints.r_hip, joints.l_hip)
        vu  == Sub(Twice(joints.neck), Add(joints.r_hip, joints.l_hip))
        vgu == <<0, 0, 1>>
        vgf == Cross(vgu, hip_line)
    IN  AngleBelowTen(ProjectVector(vgf, vu), vgu)

\* result[key] on the dict make_pose_assessment returns.
AssessmentItem(pose, key) ==
    IF make_pose_assessment(pose) = "ValueError" THEN "ValueError"
    ELSE IF key \notin AssessmentKeys THEN "KeyError"
    ELSE "value"

\* -------------------------------------------------- dev/ui/zed: the viewer
\* The live viewer: the tracker thread runs ZedBodyTracker.run(), the GUI
\* thread runs app.exec() (QML reading ZedSkeletonProvider.skeletons, the
\* user toggling pause) and then main()'s cleanup.  Python list objects
\* live in a heap; the provider, the tracker's local variable and a reader
\* hold references to them.
\*   heap        the contents of the list objects, by reference
\*   skeletons   ZedSkeletonProvider._skeletons
\*   frame_count ZedSkeletonProvider._frame_count
\*   paused      ZedSkeletonProvider._paused
\*   mutex       the holder of ZedSkeletonProvider._mutex
\*   running     ZedBodyTracker._running
\*   pc          the tracker thread's position in run()
\*   local       run()'s variable `skeletons`; todo: bodies still to append
\*   main        the GUI thread's position in main()
\*   stop_at     where run() was when stop() was called
\*   rpc, rval   the reader's position and the reference it was returned
\*   seen        what the reader found in the list it was returned
\*   calls       the setSkeletons calls that have completed
\*   published   the contents of the lists setSkeletons was called with
LiveInit ==
    [heap |-> << <<>> >>, skeletons |-> 1, frame_count |-> 0, paused |-> FALSE,
     mutex |-> "free", running |-> FALSE, pc |-> "init", local |-> 0, todo |-> 0,
     main |-> "exec", stop_at |-> "none", rpc |-> "idle", rval |-> 0, seen |-> "none",
     calls |-> 0, published |-> { <<>> }]

\* A skeleton dict of a frame: the frame it was made in and the body.
SkeletonDict(frame, body) == <<frame, body>>

\* `skeletons = []` that reuses the list object it handed over.
NewListInPlace(l) ==
    [heap |-> [l.heap EXCEPT ![l.skeletons] = <<>>], ref |-> l.skeletons]

\* `skeletons = []` (line 276): a new list object.
NewList(l) ==
    [heap |-> Append(l.heap, <<>>), ref |-> Len(l.heap) + 1]

\* run() up to line 257: the camera opens and `_running = True`, or
\* zed.open fails and run() returns (lines 155-158).
TrackerInit(l) ==
    {[l EXCEPT !.running = TRUE, !.pc = "while"], [l EXCEPT !.pc = "done"]}

\* `while self._running` (line 259); the loop's exit goes through the
\* finally clause.
TrackerWhile(l) ==
    {IF l.running THEN [l EXCEPT !.pc = "paused"] ELSE [l EXCEPT !.pc = "close"]}

\* `if self.skeleton_provider.paused` (lines 261-264): the property takes
\* the mutex for the read.
TrackerPaused(l) ==
    IF l.mutex # "free" THEN {}
    ELSE {IF l.paused THEN [l EXCEPT !.pc = "while"] ELSE [l EXCEPT !.pc = "grab"]}

\* zed.grab() (lines 266-297): a frame with some tracked bodies, the end of
\* the file, or another status, after which the loop goes round.
TrackerGrab(l) ==
    {[l EXCEPT !.pc = "close"], [l EXCEPT !.pc = "while"]}
    \cup IF l.frame_count < MaxLiveFrames
         THEN {LET n == NewList(l)
               IN  [l EXCEPT !.heap = n.heap, !.local = n.ref, !.todo = bodies, !.pc = "build"] :
                       bodies \in 0..MaxBodies}
         ELSE {}

\* skeletons.append({...}) for the next tracked body (lines 277-290).
TrackerBuild(l) ==
    {IF l.todo = 0 THEN [l EXCEPT !.pc = "set_lock"]
     ELSE [l EXCEPT !.heap[l.local] = Append(@, SkeletonDict(l.frame_count + 1, l.todo)),
                    !.todo = @ - 1]}

\* setSkeletons(skeletons_list), lines 66-72, statement by statement.
SetSkeletonsLock(l) ==
    IF l.mutex # "free" THEN {}
    ELSE {[l EXCEPT !.mutex = "tracker", !.pc = "set_assign",
                    !.published = @ \cup {l.heap[l.local]}]}
SetSkeletonsAssign(l) == {[l EXCEPT !.skeletons = l.local, !.pc = "set_incr"]}
SetSkeletonsIncrement(l) == {[l EXCEPT !.frame_count = @ + 1, !.pc = "set_unlock"]}
SetSkeletonsUnlock(l) ==
    {[l EXCEPT !.mutex = "free", !.calls = @ + 1, !.local = 0, !.pc = "while"]}

\* finally: zed.close() (lines 299-300), and run() returns.
TrackerClose(l) == {[l EXCEPT !.pc = "done"]}

\* The tracker thread's next step.
TrackerStep(l) ==
    CASE l.pc = "init" -> TrackerInit(l)
      [] l.pc = "while" -> TrackerWhile(l)
      [] l.pc = "paused" -> TrackerPaused(l)
      [] l.pc = "grab" -> TrackerGrab(l)
      [] l.pc = "build" -> TrackerBuild(l)
      [] l.pc = "set_lock" -> SetSkeletonsLock(l)
      [] l.pc = "set_assign" -> SetSkeletonsAssign(l)
      [] l.pc = "set_incr" -> SetSkeletonsIncrement(l)
      [] l.pc = "set_unlock" -> SetSkeletonsUnlock(l)
      [] l.pc = "close" -> TrackerClose(l)
      [] OTHER -> {}

\* main() after app.exec() returns: tracker.stop() (line 121, lines 302-304).
stop(l) == {[l EXCEPT !.running = FALSE, !.main = "wait", !.stop_at = l.pc]}

\* tracker_thread.wait() (line 123) returns when run() has returned.
ThreadWait(l) == IF l.pc = "done" THEN {[l EXCEPT !.main = "exited"]} ELSE {}

\* togglePause (lines 184-188), from QML while the application runs.
togglePause(l) ==
    IF l.mutex # "free" THEN {} ELSE {[l EXCEPT !.paused = ~@]}

\* The property skeletons (lines 80-83) read from QML, statement by
\* statement, and the conversion of the returned list, which runs after
\* the mutex is released.
ReaderLock(l) == IF l.mutex # "free" THEN {} ELSE {[l EXCEPT !.mutex = "reader", !.rpc = "read"]}
ReaderRead(l) == {[l EXCEPT !.rval = l.skeletons, !.rpc = "unlock"]}
ReaderUnlock(l) == {[l EXCEPT !.mutex = "free", !.rpc = "convert"]}
ReaderConvert(l) == {[l EXCEPT !.seen = l.heap[l.rval], !.rpc = "idle"]}

\* ------------------------------------------------------ ui/app_state.py
\* The editor's AppState with its ProjectSettings (config), the Tracker it
\* edits, the QTimers it has made and the selection of the person list.
\*   timers            the QTimer objects made so far, by whether each is
\*                     active; the last one is AppState._timer
\*   tracker           the df of the Tracker object AppState.tracker names
\*   config_tracker    what ProjectSettings._tracker names: "same" for the
\*                     object AppState.tracker names, "none" for None,
\*                     "other" for another Tracker object, of df config_df
\*   disk              the parquet file at the config's tracking_file
\*   selection         the ids selected in the QItemSelectionModel
\*   selected          _selected_person_ids_cache
\*   shown             the person ids SkeletonProvider.skeletons last gave
\*   op                the slot called last
\*   scrub, expect     what the user has asked of playback: whether a scrub
\*                     is open ("none", "open", or "touched" by a play or
\*                     pause since it began), and the playback state that
\*                     the end of the scrub has to restore ("any" when the
\*                     user has not fixed one)

MissingFile == [exists |-> FALSE, rows |-> <<>>]
ParquetFile(rows) == [exists |-> TRUE, rows |-> rows]

\* Tracker(tracking_file_path): the file is read when it is there.
TrackerAt(file) == IF file.exists THEN ReadParquet(file.rows) ELSE DfNone

\* df.write_parquet(save_path)
WriteParquet(d) == ParquetFile(d.rows)

\* The projects the user can open: their number_of_frames and the file their
\* tracking_file names.  In the first the two persons never meet in a
\* frame, in the second they do, the third has lost its file.
Projects ==
    { [number_of_frames |-> MaxFrame,
       file |-> ParquetFile(<<Row(0, 1, "standing"), Row(1, 2, "standing")>>)],
      [number_of_frames |-> 0,
       file |-> ParquetFile(<<Row(0, 1, "standing"), Row(0, 2, "standing")>>)],
      [number_of_frames |-> MaxFrame, file |-> MissingFile] }

FirstProject ==
    CHOOSE p \in Projects : p.file.exists /\ p.number_of_frames > 0

NoAppState ==
    [timers |-> <<>>, is_playing |-> FALSE, was_playing_before_scrub |-> FALSE,
     total_frames |-> 0, current_frame |-> 0,
     tracker |-> DfNone, config_tracker |-> "none", config_df |-> DfNone,
     disk |-> MissingFile, selection |-> {}, selected |-> <<>>, shown |-> {},
     op |-> "init", scrub |-> "none", expect |-> "any"]

PlaybackName(playing) == IF playing THEN "playing" ELSE "paused"

\* _load_project_data: a new config whose tracker is made at once and kept
\* by both, frame 0, nothing selected, not playing, and a new QTimer
\* connected to _advance_frame.  The timer there was is left as it is.
load_project_data(a, project) ==
    [a EXCEPT !.tracker = TrackerAt(project.file),
              !.config_tracker = "same",
              !.config_df = DfNone,
              !.disk = project.file,
              !.current_frame = 0,
              !.selected = <<>>,
              !.is_playing = FALSE,
              !.was_playing_before_scrub = FALSE,
              !.total_frames = project.number_of_frames,
              !.timers = Append(@, FALSE)]

\* AppState(project_path)
AppInit == load_project_data(NoAppState, FirstProject)

\* load_project: the data, then the person model is filled from the new
\* tracker and the selection cleared.
load_project(a, project) ==
    { [load_project_data(a, project) EXCEPT !.selection = {}, !.shown = {},
                                            !.op = "load_project",
                                            !.scrub = "none", !.expect = "any"] }

\* _set_is_playing: on a change, start _timer (when there are frames) or
\* stop it.
set_is_playing(a, playing) ==
    IF a.is_playing # playing
    THEN [a EXCEPT !.is_playing = playing,
                   !.timers[Len(a.timers)] =
                        IF playing THEN (IF a.total_frames > 0 THEN TRUE ELSE @)
                        ELSE FALSE]
    ELSE a

\* A play or pause of the user: it fixes the state playback has to have,
\* also for a scrub that is open.
UserSets(a, b, playing, name) ==
    [b EXCEPT !.op = name,
              !.scrub = IF a.scrub = "none" THEN "none" ELSE "touched",
              !.expect = PlaybackName(playing)]

togglePlayPause(a) ==
    { UserSets(a, set_is_playing(a, ~a.is_playing), ~a.is_playing, "togglePlayPause") }
play(a) == { UserSets(a, set_is_playing(a, TRUE), TRUE, "play") }
pause(a) == { UserSets(a, set_is_playing(a, FALSE), FALSE, "pause") }

\* startScrubbing: remember isPlaying, then pause().  The first of a scrub
\* fixes what its end has to restore.
startScrubbing(a) ==
    LET b == [a EXCEPT !.was_playing_before_scrub = a.is_playing]
    IN  { [set_is_playing(b, FALSE) EXCEPT
              !.op = "startScrubbing",
              !.scrub = IF a.scrub = "none" THEN "open" ELSE @,
              !.expect = IF a.scrub = "none" THEN PlaybackName(a.is_playing) ELSE @] }

\* stopScrubbing: play() if _was_playing_before_scrub.  Without an open
\* scrub the playback state there is has to stay.
stopScrubbing(a) ==
    LET b == IF a.was_playing_before_scrub THEN set_is_playing(a, TRUE) ELSE a
    IN  { [b EXCEPT !.op = "stopScrubbing",
                    !.scrub = "none",
                    !.expect = IF a.scrub = "none" THEN PlaybackName(a.is_playing)
                               ELSE IF a.scrub = "touched" THEN "any"
                               ELSE @] }

\* _advance_frame, the slot of every timer's timeout.
advance_frame(a) ==
    IF a.total_frames > 0
    THEN [a EXCEPT !.current_frame = (a.current_frame + 1) % a.total_frames]
    ELSE a

\* A timeout of timer i, which fires while the timer is active.
timeout(a, i) == { [advance_frame(a) EXCEPT !.op = "timeout"] }

\* The currentFrame setter.
setCurrentFrame(a, value) ==
    { [a EXCEPT !.current_frame = value, !.op = "currentFrame"] }

\* updateSelection(person_id, mode) for an id of the person model, in the
\* modes "single" and "toggle"; selectionChanged rebuilds the cache, sorted.
updateSelection(a, person_id, mode) ==
    LET sel == IF mode = "single" THEN {person_id}
               ELSE IF person_id \in a.selection THEN a.selection \ {person_id}
               ELSE a.selection \cup {person_id}
    IN  { [a EXCEPT !.selection = sel, !.selected = UniqueSorted(sel),
                    !.op = "updateSelection"] }

Elements(s) == {s[i] : i \in 1..Len(s)}

\* The person model is reset: the selection model drops its selection, and
\* the cache is rebuilt or not as selectionChanged reaches
\* _on_selection_changed or not.
AfterReset(a) == { [a EXCEPT !.selection = {}, !.selected = c] : c \in {a.selected, <<>>} }

\* delete_selected_persons: the rows of the cached ids leave AppState.tracker,
\* the person model is refreshed.
delete_selected_persons(a) ==
    IF a.selected = <<>>
    THEN { [a EXCEPT !.op = "delete_selected_persons"] }
    ELSE AfterReset([a EXCEPT
            !.tracker = remove_persons(@, Elements(a.selected)).df,
            !.op = "delete_selected_persons"])

\* merge_selected_persons: the smallest cached id is the target; on
\* MergeOverlapError a message box and nothing else; otherwise the person
\* model is filled again and the target selected when it has a row.
merge_selected_persons(a) ==
    IF Len(a.selected) < 2
    THEN { [a EXCEPT !.op = "merge_selected_persons"] }
    ELSE LET selected_ids == Sort(a.selected)
             target_id == selected_ids[1]
             source_ids == Elements(Tail(selected_ids))
             o == merge_persons(a.tracker, target_id, source_ids)
             b == [a EXCEPT !.tracker = o.df, !.op = "merge_selected_persons"]
         IN  IF o.err = "MergeOverlapError"
             THEN { [a EXCEPT !.op = "merge_selected_persons"] }
             ELSE IF target_id \in Elements(get_person_ids(o.df))
             THEN { [b EXCEPT !.selection = {target_id}, !.selected = <<target_id>>] }
             ELSE AfterReset(b)

\* save_project: the tracker's rows go to the tracking file of the config.
save_project(a) ==
    IF ~has_data(a.tracker)
    THEN { [a EXCEPT !.op = "save_project"] }
    ELSE { [a EXCEPT !.disk = WriteParquet(a.tracker), !.op = "save_project"] }

\* save_project_as: the rows go to a parquet file beside the new toml, and
\* set_tracking_file names it in the config and sets _tracker to None.
\* Without data nothing is written: the file named may be there or not.
save_project_as(a) ==
    { [a EXCEPT !.disk = file, !.config_tracker = "none", !.config_df = DfNone,
                !.op = "save_project_as"] :
        file \in IF has_data(a.tracker) THEN {WriteParquet(a.tracker)}
                 ELSE {MissingFile, a.disk} }

\* ProjectSettings.tracker: the tracker kept, or a new Tracker read from
\* the tracking file, which is then kept.
config_tracker(a) ==
    IF a.config_tracker = "none"
    THEN [a EXCEPT !.config_tracker = "other", !.config_df = TrackerAt(a.disk)]
    ELSE a

\* The df of the Tracker that ProjectSettings.tracker returns.
ConfigTrackerDf(a) ==
    LET b == config_tracker(a)
    IN  IF b.config_tracker = "same" THEN b.tracker ELSE b.config_df

\* SkeletonProvider.skeletons: the persons of config.tracker at the current
\* frame.
skeletons(a) ==
    LET d == ConfigTrackerDf(a)
    IN  { [config_tracker(a) EXCEPT
              !.shown = IF ~has_data(d) THEN {}
                        ELSE DOMAIN get_keypoints_at_frame(d, a.current_frame),
              !.op = "skeletons"] }

\* ------------------------------------------------------------- the calls
Idle == [pc |-> "idle"]

\* A call on the tracker that runs alone: its outcome becomes the state.
Do(name, outcome) ==
    /\ last' = name
    /\ df' = outcome.df
    /\ err' = outcome.err
    /\ UNCHANGED <<writer, reader, registry, result, live, app>>

CallRemovePersons ==
    \E ids \in SUBSET Persons : Do("remove_persons", remove_persons(df, ids))

CallMergePersons ==
    \E target \in Persons, sources \in SUBSET Persons :
        Do("merge_persons", merge_persons(df, target, sources))

CallAddPoseAssessmentColumns ==
    Do("add_pose_assessment_columns", add_pose_assessment_columns(df))

\* No call on the catalog or an importer has been made.
NoResult == [arg |-> <<>>, out |-> [err |-> "ok"]]

\* ------------------------------------------------------------ Tracker()
\* The live viewer and the editor are programs of their own: where the
\* library runs without them, neither has been started.
NoViewer == [pc |-> "off"]
NoEditor == [op |-> "off"]

LoadedWith(files, viewer, editor) ==
    /\ \/ df = DfNone
       \/ \E file \in files : df = ReadParquet(file)
    /\ last = "init"
    /\ err = "ok"
    /\ writer = Idle
    /\ reader = Idle
    /\ registry = SKELETON_REGISTRY
    /\ result = NoResult
    /\ live = viewer
    /\ app = editor

LoadedFrom(files) == LoadedWith(files, NoViewer, NoEditor)

\* The identity operations, on files of all three persons.
Init == LoadedFrom(ParquetFiles(Frames, Persons, {"standing"}))

Next ==
    \/ CallRemovePersons
    \/ CallMergePersons
    \/ CallAddPoseAssessmentColumns

Spec == Init /\ [][Next]_vars

\* The two calls that edit the persons of the store, on the same files.
NextEdit ==
    \/ CallRemovePersons
    \/ CallMergePersons

SpecEdit == Init /\ [][NextEdit]_vars

\* The batch assessment, on files of one person whose cells are None or any
\* of the joint arrays.
InitAssess == LoadedFrom(ParquetFiles(Frames, {1}, Keypoints))

NextAssess ==
    \/ CallAddPoseAssessmentColumns
    \/ CallRemovePersons

SpecAssess == InitAssess /\ [][NextAssess]_vars

\* The queries, on files of two persons whose cells are None or a joint
\* array.
QueryPersons == {1, 2}
QueryFrames == {0, 1}
InitQuery == LoadedFrom(ParquetFiles(QueryFrames, QueryPersons, {"None", "standing", "hip_eq_neck"}))

SpecQuery == InitQuery /\ [][Next]_vars

\* --------------------------------------------- the catalog and the floor
\* A call on the catalog or an importer: what it was made with and what
\* came back.
CatalogCall(name, arg, reg, out) ==
    /\ last' = name
    /\ err' = out.err
    /\ registry' = reg
    /\ result' = [arg |-> arg, out |-> out]
    /\ UNCHANGED <<df, writer, reader, live, app>>

CallGetSkeletonDef ==
    \E name \in LookupNames :
        LET r == get_skeleton_def(registry, name)
        IN  CatalogCall("get_skeleton_def", name, r.registry, r.out)

CallMakePoseAssessment ==
    \E key \in DOMAIN registry, pose \in Poses :
        CatalogCall("make_pose_assessment", <<key, pose>>, registry,
                    make_pose_assessment_with(Deref(registry[key]), pose))

CallFromBvh ==
    \E joint_names \in BvhJointNames :
        CatalogCall("from_bvh", joint_names, registry, from_bvh(registry, joint_names))

CallPoseSkeleton ==
    \E name \in ImporterNames(registry) :
        CatalogCall("pose_skeleton", name, registry, pose_skeleton(registry, name))

InitCatalog == LoadedFrom({})

NextCatalog ==
    \/ CallGetSkeletonDef
    \/ CallMakePoseAssessment
    \/ CallFromBvh
    \/ CallPoseSkeleton

SpecCatalog == InitCatalog /\ [][NextCatalog]_vars

\* One import: the calibration is computed from the plane the camera
\* reports, once.
CallCreateFloorTransform ==
    /\ last = "init"
    /\ \E plane \in Planes :
          CatalogCall("create_floor_transform", plane, registry,
                      [err |-> "ok", value |-> create_floor_transform(plane)])

CallFromZed ==
    /\ last = "init"
    /\ \E found \in BOOLEAN, plane \in Planes, p \in Points :
          /\ found => OnPlane(p, plane)
          /\ CatalogCall("from_zed", [found |-> found, plane |-> plane, keypoints |-> <<p>>],
                         registry, from_zed_floor(found, plane, <<p>>))

NextFloor ==
    \/ CallCreateFloorTransform
    \/ CallFromZed

SpecFloor == InitCatalog /\ [][NextFloor]_vars

\* ---------------------------------------------------- the floor quaternion
\* run() converts the rotation of the floor transform it has computed.
CallRotationMatrixToQuaternion ==
    \E R \in Rotations :
        CatalogCall("rotation_matrix_to_quaternion", R, registry,
                    [err |-> "ok", value |-> rotation_matrix_to_quaternion(R)])

NextQuaternion == CallRotationMatrixToQuaternion

SpecQuaternion == InitCatalog /\ [][NextQuaternion]_vars

\* ------------------------------------------------------- the live viewer
LiveStep(next) ==
    /\ live' \in next
    /\ UNCHANGED <<df, last, err, writer, reader, registry, result, app>>

Tracker == LiveStep(TrackerStep(live))
MainStop == live.main = "exec" /\ LiveStep(stop(live))
MainWait == live.main = "wait" /\ LiveStep(ThreadWait(live))
UserTogglePause == live.main = "exec" /\ LiveStep(togglePause(live))
QmlLock == live.main = "exec" /\ live.rpc = "idle" /\ LiveStep(ReaderLock(live))
QmlRead == live.rpc = "read" /\ LiveStep(ReaderRead(live))
QmlUnlock == live.rpc = "unlock" /\ LiveStep(ReaderUnlock(live))
QmlConvert == live.rpc = "convert" /\ LiveStep(ReaderConvert(live))

NextLive ==
    \/ Tracker
    \/ MainStop
    \/ MainWait
    \/ UserTogglePause
    \/ QmlLock
    \/ QmlRead
    \/ QmlUnlock
    \/ QmlConvert

InitLive == LoadedWith({}, LiveInit, NoEditor)

SpecLive == InitLive /\ [][NextLive]_vars

\* The threads are scheduled: the tracker thread takes its next step
\* whenever it can, a property read that has begun is finished, and main()
\* goes on once run() has returned.
SpecLiveFair ==
    /\ SpecLive
    /\ WF_vars(Tracker)
    /\ WF_vars(QmlRead)
    /\ WF_vars(QmlUnlock)
    /\ WF_vars(MainWait)

\* ------------------------------------------------------------ the editor
AppStep(next) ==
    /\ app' \in next
    /\ UNCHANGED <<df, last, err, writer, reader, registry, result, live>>

LoadProject ==
    /\ Len(app.timers) < MaxTimers
    /\ \E project \in Projects : AppStep(load_project(app, project))

TogglePlayPause == AppStep(togglePlayPause(app))
Play == AppStep(play(app))
Pause == AppStep(pause(app))
StartScrubbing == AppStep(startScrubbing(app))
StopScrubbing == AppStep(stopScrubbing(app))

Timeout ==
    \E i \in 1..Len(app.timers) : app.timers[i] /\ AppStep(timeout(app, i))

NextPlayback ==
    \/ LoadProject
    \/ TogglePlayPause
    \/ Play
    \/ Pause
    \/ StartScrubbing
    \/ StopScrubbing
    \/ Timeout

InitApp == LoadedWith({}, NoViewer, AppInit)

SpecPlayback == InitApp /\ [][NextPlayback]_vars

UpdateSelection ==
    \E person_id \in Elements(get_person_ids(app.tracker)), mode \in {"single", "toggle"} :
        AppStep(updateSelection(app, person_id, mode))

DeleteSelectedPersons == AppStep(delete_selected_persons(app))
MergeSelectedPersons == AppStep(merge_selected_persons(app))
SaveProject == AppStep(save_project(app))
SaveProjectAs == AppStep(save_project_as(app))
Skeletons == AppStep(skeletons(app))

SetCurrentFrame ==
    \E value \in Frames : AppStep(setCurrentFrame(app, value))

NextProject ==
    \/ LoadProject
    \/ UpdateSelection
    \/ DeleteSelectedPersons
    \/ MergeSelectedPersons
    \/ SaveProject
    \/ SaveProjectAs
    \/ Skeletons
    \/ SetCurrentFrame

SpecProject == InitApp /\ [][NextProject]_vars

\* ------------------------------------------------- a writer and a reader
\* One thread mutates the tracker while another queries it.  A mutating
\* call computes its new dataframe from self.df (filter and with_columns
\* return new frames) and binds it to self.df in one assignment; a query
\* reads self.df each time its code says self.df.
ConcPersons == {1, 2}
ConcFrames == {0, 1}

WriterCalls ==
    {[op |-> "remove_persons", target |-> 0, ids |-> {p}] : p \in ConcPersons}
    \cup {[op |-> "merge_persons", target |-> t, ids |-> ConcPersons \ {t}] :
            t \in ConcPersons}
    \cup {[op |-> "add_pose_assessment_columns", target |-> 0, ids |-> {}]}

Computed(call, d) ==
    CASE call.op = "remove_persons" -> remove_persons(d, call.ids)
      [] call.op = "merge_persons" -> merge_persons(d, call.target, call.ids)
      [] call.op = "add_pose_assessment_columns" -> add_pose_assessment_columns(d)

\* The right-hand side of the call's assignment has been evaluated.
WriterCompute ==
    /\ writer.pc = "idle"
    /\ \E call \in WriterCalls :
          writer' = [pc |-> "assign", call |-> call, new |-> Computed(call, df)]
    /\ UNCHANGED <<df, last, err, reader, registry, result, live, app>>

\* An in-place update: one step of it attaches the columns, or drops or
\* relabels the first row that is still to change.
InPlaceStep(d, call, new) ==
    IF d.columns # new.columns THEN [d EXCEPT !.columns = new.columns]
    ELSE LET todo == {i \in 1..Len(d.rows) : d.rows[i].person \in call.ids \ {call.target}}
             i == CHOOSE k \in todo : \A j \in todo : k <= j
         IN  IF todo = {} THEN new
             ELSE IF call.op = "remove_persons"
             THEN [d EXCEPT !.rows = SubSeq(@, 1, i - 1) \o SubSeq(@, i + 1, Len(@))]
             ELSE [d EXCEPT !.rows[i].person = call.target]

WriterAssignInPlace ==
    /\ writer.pc = "assign"
    /\ LET d == IF writer.new.err = "ok"
                THEN InPlaceStep(df, writer.call, writer.new.df)
                ELSE df
       IN  /\ df' = d
           /\ writer' = IF d = writer.new.df THEN Idle ELSE writer
    /\ UNCHANGED <<last, err, reader, registry, result, live, app>>

\* self.df = <the new frame>; a call that raised or returned early assigns
\* nothing.
WriterAssign ==
    /\ writer.pc = "assign"
    /\ df' = IF writer.new.err = "ok" THEN writer.new.df ELSE df
    /\ writer' = Idle
    /\ UNCHANGED <<last, err, registry, result, live, app>>
    /\ reader' = IF reader.pc \in {"rows", "cols"} /\ df' # df
                 THEN [reader EXCEPT !.swapped = TRUE]
                 ELSE reader

Queries ==
    {[name |-> "get_keypoints_at_frame", arg |-> 0],
     [name |-> "get_events_for_person", arg |-> 1],
     [name |-> "get_pose_metrics_for_person", arg |-> 1],
     [name |-> "get_persons_data", arg |-> 0]}

ReaderCall ==
    /\ reader.pc = "idle"
    /\ \E q \in Queries :
          reader' = [pc |-> "check", q |-> q, snap |-> DfNone, i |-> 0,
                     res |-> EmptyMap, failed |-> FALSE, swapped |-> FALSE]
    /\ UNCHANGED <<df, last, err, writer, registry, result, live, app>>

\* A get_pose_metrics_for_person without the check of the trunk columns.
EarlyReturnUnchecked(name, d) ==
    \/ d.isNone
    \/ name = "get_keypoints_at_frame" /\ "keypoints_3d" \notin d.columns

\* The query's first reading of self.df decides whether it returns at once
\* with an empty result (lines 65, 128, 182, 298-304).
EarlyReturn(name, d) ==
    \/ d.isNone
    \/ name = "get_keypoints_at_frame" /\ "keypoints_3d" \notin d.columns
    \/ name = "get_pose_metrics_for_person" /\ ~HasTrunkColumns(d)

ReaderCheck ==
    /\ reader.pc = "check"
    /\ reader' = IF EarlyReturn(reader.q.name, df)
                 THEN [reader EXCEPT !.pc = "done", !.snap = df]
                 ELSE [reader EXCEPT !.pc = "rows"]
    /\ UNCHANGED <<df, last, err, writer, registry, result, live, app>>

\* The reading of self.df that takes the rows (lines 67, 132, 193, 307).
\* get_pose_metrics_for_person keeps the filtered frame q and goes on to
\* its loop over the columns; the other queries finish from these rows.
ReaderRows ==
    /\ reader.pc = "rows"
    /\ reader' =
         CASE reader.q.name = "get_keypoints_at_frame" ->
                [reader EXCEPT !.pc = "done", !.snap = df,
                    !.res = KeypointsDict(SelectSeq(df.rows,
                                LAMBDA r : r.frame = reader.q.arg))]
           [] reader.q.name = "get_events_for_person" ->
                [reader EXCEPT !.pc = "done", !.snap = df,
                    !.res = EventsOfRows(df.rows, reader.q.arg)]
           [] reader.q.name = "get_persons_data" ->
                [reader EXCEPT !.pc = "done", !.snap = df,
                    !.res = PersonsDataOfRows(df.rows)]
           [] reader.q.name = "get_pose_metrics_for_person" ->
                [reader EXCEPT !.pc = "cols", !.snap = df, !.i = 1]
    /\ UNCHANGED <<df, last, err, writer, registry, result, live, app>>

\* One turn of the loop over target_columns (lines 317-323): the column is
\* looked up in self.df.columns as it is now, and read from q.
ReaderColumn ==
    /\ reader.pc = "cols"
    /\ LET col == TargetColumns[reader.i]
           nxt == IF reader.i = Len(TargetColumns) THEN "done" ELSE "cols"
       IN  reader' =
             IF col \notin df.columns
             THEN [reader EXCEPT !.pc = nxt, !.i = @ + 1]
             ELSE IF col \notin reader.snap.columns
             THEN [reader EXCEPT !.pc = "done", !.failed = TRUE]
             ELSE [reader EXCEPT !.pc = nxt, !.i = @ + 1,
                       !.res = @ @@ (col :> GetColumn(
                                  PersonQuery(reader.snap, reader.q.arg), col))]
    /\ UNCHANGED <<df, last, err, writer, registry, result, live, app>>

ReaderReturn ==
    /\ reader.pc = "done"
    /\ reader' = Idle
    /\ UNCHANGED <<df, last, err, writer, registry, result, live, app>>

InitConc == LoadedFrom(ParquetFiles(ConcFrames, ConcPersons, {"standing"}))

NextConc ==
    \/ WriterCompute
    \/ WriterAssign
    \/ ReaderCall
    \/ ReaderCheck
    \/ ReaderRows
    \/ ReaderColumn
    \/ ReaderReturn

SpecConc == InitConc /\ [][NextConc]_vars

\* ================================================================ claims
UniqueKeys(rows) ==
    \A i, j \in Indices(rows) :
        (rows[i].frame = rows[j].frame /\ rows[i].person = rows[j].person) => i = j

\* Two different ids of `ids` have a sample in the same frame.
SharedFrame(rows, ids) ==
    \E a, b \in ids : a # b /\ FramesOf(rows, a) \cap FramesOf(rows, b) # {}

\* C1: merge_persons(target, sources), called when the target and a source,
\* or two sources, have a sample in the same frame, raises MergeOverlapError
\* and leaves the dataframe as it was.
C1_MergeConflictLeavesStore ==
    \A t \in Persons, S \in SUBSET Persons :
        SharedFrame(df.rows, {t} \cup S)
            => merge_persons(df, t, S) = Outcome(df, "MergeOverlapError")

\* A failed merge has happened on a store of distinct keys: two different
\* ids met in a frame.
C1_Witness ==
    /\ last = "merge_persons"
    /\ err = "MergeOverlapError"
    /\ UniqueKeys(df.rows)
    /\ SharedFrame(df.rows, Persons)

\* C2: for a target and sources (other than the target) whose frame sets are
\* pairwise disjoint, merge_persons succeeds, no source id is left in
\* get_person_ids, and the target's row count is its count before plus the
\* sources' counts before.
C2_DisjointMergeSucceeds ==
    \A t \in Persons : \A S \in SUBSET (Persons \ {t}) :
        (~df.isNone /\ ~SharedFrame(df.rows, {t} \cup S)) =>
            LET o == merge_persons(df, t, S)
                ids == get_person_ids(o.df)
            IN  /\ o.err = "ok"
                /\ \A k \in 1..Len(ids) : ids[k] \notin S
                /\ RowCount(o.df.rows, t)
                     = RowCount(df.rows, t) + Count(df.rows, LAMBDA r : r.person \in S)

\* C3: the store holds at most one sample per (frame, person) pair in every
\* reachable state, a loaded file's repeated key being rejected or dropped.
C3_OneSamplePerKey == UniqueKeys(df.rows)

\* C6: remove_persons(ids) deletes every row of every id in ids and no other
\* row, raises nothing, gives the same store when called again, and leaves
\* the store as it is when no row has an id of ids.
C6_RemovePersons ==
    \A ids \in SUBSET Persons :
        LET o == remove_persons(df, ids)
        IN  /\ o.err = "ok"
            /\ PersonSet(o.df.rows) \cap ids = {}
            /\ \A p \in Persons \ ids :
                    SelectSeq(o.df.rows, LAMBDA r : r.person = p)
                        = SelectSeq(df.rows, LAMBDA r : r.person = p)
            /\ remove_persons(o.df, ids) = o
            /\ (PersonSet(df.rows) \cap ids = {} => o.df = df)

\* A remove_persons has run on a loaded store and left rows of fewer persons
\* than the files hold.
C6_Witness ==
    /\ last = "remove_persons"
    /\ err = "ok"
    /\ ~df.isNone
    /\ Len(df.rows) > 0
    /\ PersonSet(df.rows) # Persons

\* The reference of C7.  The ascending arrangement of a frame list: the
\* non-decreasing list that holds each value as often.
AscendingOf(frames) ==
    CHOOSE F \in [1..Len(frames) -> Frames] :
        /\ \A i \in 1..(Len(F) - 1) : F[i] <= F[i + 1]
        /\ \A v \in Frames :
             Cardinality({i \in 1..Len(F) : F[i] = v})
               = Cardinality({i \in 1..Len(frames) : frames[i] = v})

\* An event starts at every position whose frame is not its predecessor's
\* plus one, and ends right before the next start.
RunStarts(F) == {i \in 1..Len(F) : i = 1 \/ F[i] # F[i - 1] + 1}
RunEnd(F, i) ==
    CHOOSE j \in i..Len(F) :
        /\ \A k \in (i + 1)..j : k \notin RunStarts(F)
        /\ (j = Len(F) \/ j + 1 \in RunStarts(F))
ReferenceEvents(F) ==
    LET starts == UniqueSorted(RunStarts(F))
    IN  [k \in 1..Len(starts) |-> <<F[starts[k]], F[RunEnd(F, starts[k])]>>]

\* The store of the spec's example: one person with rows at frames
\* 0,1,2,5,6,9, stored out of order.
ExampleStore ==
    ReadParquet([i \in 1..6 |-> Row(<<5, 0, 9, 2, 6, 1>>[i], 1, "standing")])

\* C7: get_events_for_person(id) equals the reference (sort the person's
\* frames ascending, start an event wherever a frame is not the previous
\* plus one, emit [first, last] of each run in order); frames
\* [0,1,2,5,6,9] give [[0,2],[5,6],[9,9]]; an id without rows gives [].
C7_EventsMatchReference ==
    /\ \A pid \in Persons :
          get_events_for_person(df, pid)
            = ReferenceEvents(AscendingOf(FrameColumn(df.rows, pid)))
    /\ get_events_for_person(ExampleStore, 1) = <<<<0, 2>>, <<5, 6>>, <<9, 9>>>>
    /\ \A pid \in Persons \ PersonSet(df.rows) : get_events_for_person(df, pid) = <<>>

\* A loaded store in which one person has a gap between two of its frames
\* and another person has no row.
C7_Witness ==
    /\ ~df.isNone
    /\ \E pid \in Persons : Len(get_events_for_person(df, pid)) >= 2
    /\ PersonSet(df.rows) # Persons

\* C8: in every reachable store the events of every person are maximal
\* contiguous runs (every frame inside an event has a row of the person,
\* every frame of the person lies in exactly one event, consecutive events
\* have a frame without a row between them), and get_persons_data returns
\* the same events as get_events_for_person.
C8_EventsAreMaximalRuns ==
    \A pid \in Persons :
        LET ev == get_events_for_person(df, pid)
            pd == get_persons_data(df)
        IN  /\ \A k \in 1..Len(ev) :
                  \A f \in ev[k][1]..ev[k][2] : f \in FramesOf(df.rows, pid)
            /\ \A f \in FramesOf(df.rows, pid) :
                  Cardinality({k \in 1..Len(ev) : ev[k][1] <= f /\ f <= ev[k][2]}) = 1
            /\ \A k \in 1..(Len(ev) - 1) : ev[k][2] + 1 < ev[k + 1][1]
            /\ \A k \in 1..Len(pd) : pd[k].id = pid => pd[k].events = ev

C10_BatchSurvivesBadRows ==
    (~df.isNone /\ df.columns = BaseColumns) =>
        LET o == add_pose_assessment_columns(df)
        IN  /\ o.err = "ok"
            /\ MetricColumns \subseteq o.df.columns
            /\ Len(o.df.rows) = Len(df.rows)
            /\ \A i \in Indices(df.rows) :
                  o.df.rows[i].metrics
                    = IF df.rows[i].keypoints_3d \in {"None", "hip_eq_neck", "hips_coincident"}
                      THEN "null"
                      ELSE df.rows[i].keypoints_3d

\* What a mutating call does when it is complete: every row of the ids is
\* gone (remove_persons) or relabeled (merge_persons) and no other row has
\* changed; every metric column is there and every row has its cells
\* (add_pose_assessment_columns).
CompleteEffect(call, before, after) ==
    CASE call.op = "remove_persons" ->
            /\ after.columns = before.columns
            /\ after.rows = SelectSeq(before.rows, LAMBDA r : r.person \notin call.ids)
      [] call.op = "merge_persons" ->
            /\ after.columns = before.columns
            /\ Len(after.rows) = Len(before.rows)
            /\ \A i \in Indices(after.rows) :
                  /\ after.rows[i].frame = before.rows[i].frame
                  /\ after.rows[i].person =
                        IF before.rows[i].person \in call.ids
                        THEN call.target ELSE before.rows[i].person
      [] call.op = "add_pose_assessment_columns" ->
            /\ after.columns = before.columns \cup MetricColumns
            /\ Len(after.rows) = Len(before.rows)
            /\ \A i \in Indices(after.rows) :
                  /\ after.rows[i].frame = before.rows[i].frame
                  /\ after.rows[i].person = before.rows[i].person
                  /\ after.rows[i].metrics # "absent"

\* C4: each mutating call is atomic towards a concurrent reader: whenever
\* Tracker.df changes, it changes from the complete state before a call to
\* the complete state after it, so no reading of self.df finds only some
\* rows removed or relabeled or only some metric columns attached.
C4_MutationsAreAtomic ==
    [][df' # df => /\ writer.pc = "assign"
                   /\ CompleteEffect(writer.call, df, df')]_vars

\* A query is between two readings of self.df while a mutating call has
\* computed a different dataframe and is about to assign it.
C4_Witness ==
    /\ writer.pc = "assign"
    /\ writer.new.df # df
    /\ reader.pc \in {"rows", "cols"}

\* What each query returns on one dataframe, read once.
QueryOn(q, d) ==
    CASE q.name = "get_keypoints_at_frame" -> get_keypoints_at_frame(d, q.arg)
      [] q.name = "get_events_for_person" -> get_events_for_person(d, q.arg)
      [] q.name = "get_pose_metrics_for_person" -> get_pose_metrics_for_person(d, q.arg)
      [] q.name = "get_persons_data" -> get_persons_data(d)

\* C5: a query that runs while the writer assigns a new dataframe returns
\* what it returns on one published dataframe (the one it took its rows
\* from), and does not fail.
C5_ReadsOneSnapshot ==
    reader.pc = "done" =>
        /\ ~reader.failed
        /\ reader.res = QueryOn(reader.q, reader.snap)

\* A get_pose_metrics_for_person has finished with metric columns in its
\* result although the dataframe was replaced between its readings.
C5_Witness ==
    /\ reader.pc = "done"
    /\ reader.swapped
    /\ reader.q.name = "get_pose_metrics_for_person"
    /\ reader.snap # df
    /\ DOMAIN reader.res # {}

\* C11: get_keypoints_for_person(id) without a frame returns the person's
\* cells in ascending frame order whatever the stored row order, an empty
\* sequence (not None) for an id without rows, and the same value when
\* called again on the same store.
C11_SamplesInFrameOrder ==
    \A pid \in Persons :
        LET r == get_keypoints_for_person(df, pid, {})
            q == SortByFrame(SelectSeq(df.rows, LAMBDA x : x.person = pid))
        IN  /\ ~r.isNone
            /\ \E perm \in [Indices(q) -> Indices(q)] :
                  /\ \A i, j \in Indices(q) : perm[i] = perm[j] => i = j
                  /\ \A i, j \in Indices(q) : i < j => q[perm[i]].frame <= q[perm[j]].frame
                  /\ r.items = [i \in Indices(q) |-> q[perm[i]].keypoints_3d]
            /\ (pid \notin PersonSet(df.rows) => r.items = <<>>)
            /\ get_keypoints_for_person(df, pid, {}) = r

\* The persons that have a row at the frame.
PersonsAt(rows, f) == {rows[i].person : i \in {j \in Indices(rows) : rows[j].frame = f}}

\* C12 as claimed: the keys of get_keypoints_at_frame(f) are exactly the
\* persons that have a row at frame f.
C12_KeysAreAllPersonsAtFrame ==
    \A f \in Frames :
        DOMAIN get_keypoints_at_frame(df, f) = PersonsAt(df.rows, f)

\* C12 as amended: the keys of get_keypoints_at_frame(f) are exactly the
\* persons that have a row at frame f whose keypoints_3d cell is not None,
\* each mapped to the cell of its last such row; a frame without rows gives
\* the empty map.
C12_KeysArePersonsWithKeypoints ==
    \A f \in Frames :
        LET m == get_keypoints_at_frame(df, f)
            with_cell == {i \in Indices(df.rows) :
                            df.rows[i].frame = f /\ df.rows[i].keypoints_3d # "None"}
        IN  /\ DOMAIN m = {df.rows[i].person : i \in with_cell}
            /\ \A p \in DOMAIN m :
                  \E i \in with_cell :
                      /\ df.rows[i].person = p
                      /\ m[p] = df.rows[i].keypoints_3d
                      /\ \A j \in with_cell : df.rows[j].person = p => j <= i
            /\ (PersonsAt(df.rows, f) = {} => m = EmptyMap)

\* A frame holds a row with a None cell for one person and a row with a
\* joint array for another, and some frame holds no row.
C12_Witness ==
    /\ ~df.isNone
    /\ \E i, j \in Indices(df.rows) :
          /\ df.rows[i].frame = df.rows[j].frame
          /\ df.rows[i].person # df.rows[j].person
          /\ df.rows[i].keypoints_3d = "None"
          /\ df.rows[j].keypoints_3d # "None"
          /\ DOMAIN get_keypoints_at_frame(df, df.rows[i].frame) = {df.rows[j].person}
    /\ \E f \in Frames : PersonsAt(df.rows, f) = {}

\* C13: make_pose_assessment returns all nine metrics and the transverse,
\* coronal, sagittal and ground planes, and after a successful
\* add_pose_assessment_columns every row whose keypoints are not None
\* carries a value that is not null in each of the nine metric columns.
C13_AllNineMetrics ==
    /\ MetricColumns \subseteq AssessmentKeys
    /\ {"transverse_plane", "coronal_plane", "sagittal_plane", "ground_plane"}
          \subseteq AssessmentKeys
    /\ LET o == add_pose_assessment_columns(df)
       IN  (o.err = "ok" /\ MetricColumns \subseteq o.df.columns) =>
              \A i \in Indices(o.df.rows) :
                  o.df.rows[i].keypoints_3d # "None" =>
                      \A col \in MetricColumns : MetricCell(o.df.rows[i], col) # "null"

\* C14: for every skeleton definition of the registry, each role
\* make_pose_assessment reads resolves to an index in 0..num_keypoints-1.
C14_RolesResolve ==
    \A key \in DOMAIN registry : \A i \in 1..Len(RolesRead) :
        LET r == RoleLookup(Deref(registry[key]), RolesRead[i])
        IN  /\ r.err = "ok"
            /\ r.value \in 0..(Deref(registry[key]).num_keypoints - 1)

C16_DefinitionsAreDenseBijections ==
    /\ registry = SKELETON_REGISTRY
    /\ \A key \in DOMAIN registry :
          LET def == Deref(registry[key])
              N == def.num_keypoints
              k2i == def.keypoint_to_index
              i2k == def.index_to_keypoint
          IN  /\ DOMAIN k2i = def.keypoints
              /\ {k2i[m] : m \in def.keypoints} = 0..(N - 1)
              /\ \A a, b \in def.keypoints : k2i[a] = k2i[b] => a = b
              /\ DOMAIN i2k = 0..(N - 1)
              /\ \A m \in def.keypoints : i2k[k2i[m]] = m
              /\ \A v \in 0..(N - 1) : k2i[i2k[v]] = v
              /\ \A b \in def.bones : b[1] \in def.keypoints /\ b[2] \in def.keypoints
              /\ \A bi \in def.bone_indices : bi[1] \in 0..(N - 1) /\ bi[2] \in 0..(N - 1)

\* A lookup has returned the 51-joint definition after the registry was
\* built.
C16_Witness ==
    /\ last = "get_skeleton_def"
    /\ err = "ok"
    /\ Deref(result.out.value).num_keypoints = 51
    /\ result.out.value = registry[Name_optitrack]

Identity == <<Vec(1, 0, 0), Vec(0, 1, 0), Vec(0, 0, 1)>>

\* C18: the floor transform of a plane [0,0,1,d] is R = identity and
\* t = (0,0,d); [0,0,1,-1] gives t = (0,0,-1).
C18_FlatFloorGivesIdentity ==
    /\ (last = "create_floor_transform"
        /\ <<result.arg[1], result.arg[2], result.arg[3]>> = Vec(0, 0, 1))
          => result.out.value = [R |-> Identity, t |-> <<QInt(0), QInt(0), result.arg[4]>>]
    /\ create_floor_transform(<<QInt(0), QInt(0), QInt(1), QInt(-1)>>)
          = [R |-> Identity, t |-> Vec(0, 0, -1)]

\* The transform has been computed for the plane [0,0,1,-1].
C18_Witness ==
    /\ last = "create_floor_transform"
    /\ result.arg = <<QInt(0), QInt(0), QInt(1), QInt(-1)>>
    /\ result.out.value.t = Vec(0, 0, -1)

\* C19: for every plane with a non-zero normal, of unit length or not, a
\* camera-space point on the plane is mapped by R*p + t to a point with
\* z = 0.
C19_FloorAtHeightZero ==
    (/\ last = "from_zed"
     /\ result.arg.found
     /\ <<result.arg.plane[1], result.arg.plane[2], result.arg.plane[3]>> # Vec(0, 0, 0)
     /\ OnPlane(result.arg.keypoints[1], result.arg.plane))
        => result.out.keypoints_3d[1][3] = QInt(0)

\* C20: for a plane whose normal is zero the floor transform fails with
\* InvalidPlaneError: no transform comes back and no keypoint is
\* transformed with it.
C20_ZeroNormalRejected ==
    (/\ last = "from_zed"
     /\ result.arg.found
     /\ <<result.arg.plane[1], result.arg.plane[2], result.arg.plane[3]>> = Vec(0, 0, 0))
        => /\ result.out.err = "InvalidPlaneError"
           /\ result.out.keypoints_3d = result.arg.keypoints

QuaternionNormSquared(q) ==
    QAdd(QAdd(QMul(q[1], q[1]), QMul(q[2], q[2])), QAdd(QMul(q[3], q[3]), QMul(q[4], q[4])))

\* C21: rotation_matrix_to_quaternion(R) is a unit quaternion for every
\* rotation matrix R, in each of its four branches, and the rotation matrix
\* of that quaternion is R again; so for the identity and for half turns.
C21_UnitAndInvertible ==
    /\ last = "rotation_matrix_to_quaternion" =>
          /\ QuaternionNormSquared(result.out.value) = QInt(1)
          /\ RotationOf(result.out.value) = result.arg
    /\ \A R \in {RotationOf(<<QInt(1), QInt(0), QInt(0), QInt(0)>>),
                 RotationOf(<<QInt(0), QInt(1), QInt(0), QInt(0)>>),
                 RotationOf(<<QInt(0), QInt(0), QInt(1), QInt(0)>>),
                 RotationOf(<<QInt(0), QInt(0), QInt(0), QInt(1)>>),
                 RotationOf(<<QInt(0), QInt(2), QInt(2), QInt(1)>>)} :
          LET q == rotation_matrix_to_quaternion(R)
          IN  QuaternionNormSquared(q) = QInt(1) /\ RotationOf(q) = R

\* A half turn about the y axis has been converted in the branch of the
\* largest diagonal entry R[1, 1].
C21_Witness ==
    /\ last = "rotation_matrix_to_quaternion"
    /\ result.arg = <<Vec(-1, 0, 0), Vec(0, 1, 0), Vec(0, 0, -1)>>
    /\ QuaternionBranch(result.arg) = "y"
    /\ result.out.value = <<QInt(0), QInt(0), QInt(1), QInt(0)>>

\* C22: for the standing, arms-down pose make_pose_assessment gives
\* |trunk_bending| < 10 and |trunk_side_bending| < 10 and a negative value
\* under each of left/right_elbow_above_shoulder and
\* left/right_hand_above_head_level; so does every assessed row of the
\* store that holds this pose.
C22_StandingPoseMetrics ==
    /\ make_pose_assessment("standing") # "ValueError"
    /\ TrunkBendingBelowTen(Joints("standing"))
    /\ TrunkSideBendingBelowTen(Joints("standing"))
    /\ \A key \in {"left_elbow_above_shoulder", "right_elbow_above_shoulder",
                   "left_hand_above_head_level", "right_hand_above_head_level"} :
          /\ AssessmentItem("standing", key) = "value"
          /\ ~df.isNone =>
                \A i \in Indices(df.rows) :
                    (df.rows[i].keypoints_3d = "standing"
                     /\ df.rows[i].metrics \notin {"absent", "null"})
                        => MetricCell(df.rows[i], key) # "null"

\* C23: a reader of ZedSkeletonProvider.skeletons that runs concurrently
\* with the tracker thread's setSkeletons finds, in the list it was
\* returned, the complete list of one setSkeletons call (or the initial
\* empty list), never a partly filled one; and whenever the mutex is not
\* held by setSkeletons, frameCount is the number of completed
\* setSkeletons calls.
C23_NoTornSkeletons ==
    /\ live.seen # "none" => live.seen \in live.published
    /\ live.rval # 0 /\ live.rpc \in {"convert", "idle"} => live.heap[live.rval] \in live.published
    /\ live.mutex # "tracker" => live.frame_count = live.calls
    /\ live.mutex = "tracker" => live.frame_count \in {live.calls, live.calls + 1}

\* A reader was returned the previous list while the tracker was filling
\* the next one, and read it while two calls had completed.
C23_Witness ==
    /\ live.calls = 2
    /\ live.frame_count = 2
    /\ live.seen # "none"
    /\ Len(live.seen) = 2
    /\ live.heap[live.skeletons] # live.seen

\* C28: once stop() has been called, at whatever point of run() the call
\* arrives (run() still initialising, the loop running, the provider
\* paused), run() eventually returns and tracker_thread.wait() returns.
C28_StopEndsRun ==
    (live.main = "wait") ~> (live.pc = "done" /\ live.main = "exited")

C25_MergeOnlyRelabels ==
    \A t \in Persons : \A S \in SUBSET Persons :
        LET o == merge_persons(df, t, S)
        IN  (~df.isNone /\ o.err = "ok") =>
                /\ ~o.df.isNone
                /\ o.df.columns = df.columns
                /\ Len(o.df.rows) = Len(df.rows)
                /\ \A i \in Indices(df.rows) :
                      /\ o.df.rows[i].frame = df.rows[i].frame
                      /\ o.df.rows[i].keypoints_3d = df.rows[i].keypoints_3d
                      /\ o.df.rows[i].metrics = df.rows[i].metrics
                      /\ df.rows[i].person \notin S => o.df.rows[i] = df.rows[i]
                      /\ df.rows[i].person \in S => o.df.rows[i].person = t
                /\ FramesOf(o.df.rows, t)
                      = UNION {FramesOf(df.rows, p) : p \in {t} \cup S}

\* A merge of a source into a target has succeeded on a store that also
\* holds a third person.
C25_Witness ==
    /\ last = "merge_persons"
    /\ err = "ok"
    /\ ~df.isNone
    /\ Cardinality(FramesOf(df.rows, 1)) >= 2
    /\ FramesOf(df.rows, 2) = {}
    /\ FramesOf(df.rows, 3) # {}

\* C26: whenever isPlaying is false every timer connected to _advance_frame
\* is stopped, the timer of a project that was playing when load_project
\* replaced it included, so that no timeout advances currentFrame.
C26_PausedMeansNoTimerRuns ==
    ~app.is_playing => \A i \in 1..Len(app.timers) : ~app.timers[i]

\* C27: after any deletes, merges and saves, the tracker that
\* ProjectSettings.tracker gives the skeleton display holds what
\* AppState.tracker holds: at every frame the display reads the persons and
\* keypoints the edited store has.
C27_DisplayReadsEditedStore ==
    \A frame \in Frames :
        get_keypoints_at_frame(ConfigTrackerDf(app), frame)
            = get_keypoints_at_frame(app.tracker, frame)

\* C30: playback is paused once startScrubbing has returned, and once
\* stopScrubbing has returned playback is in the state the scrub has to
\* restore: the state at the first startScrubbing of the scrub, or, without
\* an open scrub, the state it was in.
C30_ScrubRestoresPlayback ==
    /\ app.op = "startScrubbing" => ~app.is_playing
    /\ (app.op = "stopScrubbing" /\ app.expect # "any")
          => PlaybackName(app.is_playing) = app.expect

====
